---- MODULE Spec2Model ----
(***************************************************************************)
(* The load balancer of projects/reverse-proxy/main.go: the backend        *)
(* registry (LoadBalancer), the five selection strategies, the per-backend *)
(* connection and health bookkeeping, and proxyHandler, the request        *)
(* handler that brackets each forwarded request with                       *)
(* IncrementConnections / DecrementConnections and marks a backend         *)
(* unhealthy on a transport error.                                         *)
(*                                                                         *)
(* A backend is referred to by its position in lb.backends (the Go code    *)
(* holds *Backend pointers; the list is append-only, so a position names   *)
(* one backend for ever).  0 stands for nil.                               *)
(*                                                                         *)
(* lb.mutex is modelled explicitly (lbMutex).  A critical section of a     *)
(* Backend's own mutex touches only that backend and takes no other lock,  *)
(* so each such section is one atomic step.                                *)
(***************************************************************************)
EXTENDS Integers, Sequences, FiniteSets, TLC

\* ------------------------------------------------------------- bounds
NumThreads == 2     \* request goroutines running proxyHandler concurrently (Spec)
MaxBackends == 2    \* AddBackend calls made (Spec, SpecLC)
MaxRequests == 2    \* IncrementConnections calls admitted (Spec)
SeqBackends == 3    \* AddBackend calls made (SpecRR, SpecWRR, SpecIPHash)
SeqRequests == 6    \* IncrementConnections calls admitted (SpecRR, SpecWRR, SpecIPHash)
MaxWeight == 2      \* largest weight handed to AddBackend (SpecWRR)
LCRequests == 4     \* IncrementConnections calls admitted (SpecLC)
MaxActive == 2      \* ActiveRequests reached by direct IncrementConnections calls (SpecLC)
CursorRequests == 3 \* IncrementConnections calls admitted (SpecCursor)
ClientRequests == 3 \* IncrementConnections calls admitted (SpecClientIP)
StatsRequests == 2  \* IncrementConnections calls admitted (SpecStats)
MaxIPs == 2         \* addresses the lookup of cats-api returns (SpecStartup)
LockBackends == 1     \* AddBackend calls made (SpecLocks)
LockRequests == 1     \* IncrementConnections calls admitted (SpecLocks)
OverflowRequests == 4 \* IncrementConnections calls admitted (SpecOverflow)
SimpleRequests == 4  \* requests the simple proxy handles (SpecSimple)
StartupRequests == 1 \* IncrementConnections calls admitted (SpecStartup)

\* ---------------------------------------------------- program constants
RoundRobin == 0
Random == 1
WeightedRoundRobin == 2
LeastConnections == 3
IPHash == 4
Strategies == {RoundRobin, Random, WeightedRoundRobin, LeastConnections, IPHash}

\* int(^uint(0) >> 1), the largest int.  Go's int is 32 or 64 bits wide with the
\* target; TLC's integers are 32 bits wide, so the model takes the 32-bit int
\* (GOARCH=386, arm), and a 64-bit build reaches the same values at 2^63.
MaxInt == 2147483647
MinInt == -MaxInt - 1

\* x++ on an int: signed overflow wraps around.
IntIncrement(x) == IF x = MaxInt THEN MinInt ELSE x + 1

StatusOK == 200
StatusInternalServerError == 500
StatusBadGateway == 502
StatusServiceUnavailable == 503

\* The fallback address of discoverBackends, and a string url.Parse rejects.
DefaultURL == "http://cats-api:8080"

\* var loadBalancer *LoadBalancer is nil: there is no strategy yet
NoStrategy == -1

\* Addresses the resolver can return for cats-api, and
\* fmt.Sprintf("http://%s:8080", ip.IP.String()) for each.
IPs == {"10.0.0.2", "10.0.0.3"}
SprintfURL == [ip \in IPs |-> IF ip = "10.0.0.2" THEN "http://10.0.0.2:8080"
                                                 ELSE "http://10.0.0.3:8080"]

\* discoverBackends without its fallbacks.
discoverBackendsNoFallback(err, ips) == [i \in DOMAIN ips |-> SprintfURL[ips[i]]]

\* func discoverBackends() []string, for the outcome (ips, err) of LookupIPAddr
discoverBackends(err, ips) ==
    IF err THEN <<DefaultURL>>
    ELSE LET discoveredBackends == [i \in DOMAIN ips |-> SprintfURL[ips[i]]]
         IN  IF Len(discoveredBackends) = 0 THEN <<DefaultURL>> ELSE discoveredBackends

\* main is not modelled: the load balancer is used as the unit tests use it.
NoMain == [pc |-> "none", strategyFlag |-> <<>>, envStrategy |-> <<>>,
           err |-> FALSE, ips |-> <<>>, discoveredBackends |-> <<>>]
BadURL == "http://[::1"
URLs == {DefaultURL, BadURL}

\* Client identities, as the bytes of the strings of TestLoadBalancer_IPHash:
\* "192.168.1.10" and "192.168.1.20".
ClientA == <<49, 57, 50, 46, 49, 54, 56, 46, 49, 46, 49, 48>>
ClientB == <<49, 57, 50, 46, 49, 54, 56, 46, 49, 46, 50, 48>>
Clients == {ClientA, ClientB}

\* What getClientIP reads of a request: the X-Forwarded-For and X-Real-IP headers
\* (r.Header.Get gives "" for a header that is absent) and r.RemoteAddr, each as the
\* bytes of its string.
NoRequest == [XFF |-> <<>>, XRI |-> <<>>, RemoteAddr |-> <<>>]

\* "10.0.0.1:12345", the RemoteAddr of TestGetClientIP
ProxyAddr == <<49, 48, 46, 48, 46, 48, 46, 49, 58, 49, 50, 51, 52, 53>>

\* Requests that arrive through a front proxy which names the client in X-Forwarded-For.
ProxiedRequests == {[XFF |-> c, XRI |-> <<>>, RemoteAddr |-> ProxyAddr] : c \in Clients}

\* "192.168.1.10, 192.168.1.20": an X-Forwarded-For that went through two proxies
ForwardedList == ClientA \o <<44, 32>> \o ClientB

\* "192.168.1.10:5000" and "192.168.1.10:5001": two connections of the one host
PeerAddrs == {ClientA \o <<58, 53, 48, 48, 48>>, ClientA \o <<58, 53, 48, 48, 49>>}

\* Requests with every combination of present and absent headers.
Requests == [XFF : {<<>>, ClientB, ForwardedList}, XRI : {<<>>, ClientA}, RemoteAddr : PeerAddrs]

\* func getClientIP(r *http.Request) string, with X-Real-IP tried first
getClientIPRealFirst(r) ==
    IF r.XRI # <<>> THEN r.XRI
    ELSE IF r.XFF # <<>> THEN r.XFF
    ELSE r.RemoteAddr

\* The bytes of s before its first byte c (all of s when it has none):
\* strings.Split(s, string(c))[0]
RECURSIVE FirstField(_, _)
FirstField(s, c) ==
    IF s = <<>> \/ Head(s) = c THEN <<>> ELSE <<Head(s)>> \o FirstField(Tail(s), c)

\* host of net.SplitHostPort(addr) for an address "host:port" without brackets: the
\* bytes before its last colon.
RECURSIVE SplitHost(_)
SplitHost(addr) ==
    IF \A i \in DOMAIN addr : addr[i] # 58 THEN <<>>
    ELSE IF \A i \in 2..Len(addr) : addr[i] # 58 THEN <<>>
    ELSE <<Head(addr)>> \o SplitHost(Tail(addr))

\* getClientIP as the guide prints it: the first address of X-Forwarded-For, and the
\* host of RemoteAddr.
getClientIPFirstHost(r) ==
    IF r.XFF # <<>> THEN FirstField(r.XFF, 44)
    ELSE IF r.XRI # <<>> THEN r.XRI
    ELSE SplitHost(r.RemoteAddr)

\* func getClientIP(r *http.Request) string
getClientIP(r) ==
    IF r.XFF # <<>> THEN r.XFF
    ELSE IF r.XRI # <<>> THEN r.XRI
    ELSE r.RemoteAddr

\* Every string getClientIP can return for the requests above.
Keys == {getClientIP(r) : r \in Requests \cup ProxiedRequests}

Threads == 1..NumThreads

\* ------------------------------------------------ configuration strings
\* The case labels of parseStrategy, as the bytes of their strings.
\*   roundrobin: "roundrobin"
\*   round_robin: "round-robin"
\*   rr: "rr"
\*   random: "random"
\*   rand: "rand"
\*   weighted: "weighted"
\*   weightedroundrobin: "weightedroundrobin"
\*   weighted_round_robin: "weighted-round-robin"
\*   wrr: "wrr"
\*   leastconnections: "leastconnections"
\*   least_connections: "least-connections"
\*   lc: "lc"
\*   iphash: "iphash"
\*   ip_hash: "ip-hash"
\*   hash: "hash"
StrategyNames ==
    [roundrobin |-> <<114, 111, 117, 110, 100, 114, 111, 98, 105, 110>>,
     round_robin |-> <<114, 111, 117, 110, 100, 45, 114, 111, 98, 105, 110>>,
     rr |-> <<114, 114>>,
     random |-> <<114, 97, 110, 100, 111, 109>>,
     rand |-> <<114, 97, 110, 100>>,
     weighted |-> <<119, 101, 105, 103, 104, 116, 101, 100>>,
     weightedroundrobin |-> <<119, 101, 105, 103, 104, 116, 101, 100, 114, 111, 117, 110, 100, 114, 111, 98, 105, 110>>,
     weighted_round_robin |-> <<119, 101, 105, 103, 104, 116, 101, 100, 45, 114, 111, 117, 110, 100, 45, 114, 111, 98, 105, 110>>,
     wrr |-> <<119, 114, 114>>,
     leastconnections |-> <<108, 101, 97, 115, 116, 99, 111, 110, 110, 101, 99, 116, 105, 111, 110, 115>>,
     least_connections |-> <<108, 101, 97, 115, 116, 45, 99, 111, 110, 110, 101, 99, 116, 105, 111, 110, 115>>,
     lc |-> <<108, 99>>,
     iphash |-> <<105, 112, 104, 97, 115, 104>>,
     ip_hash |-> <<105, 112, 45, 104, 97, 115, 104>>,
     hash |-> <<104, 97, 115, 104>>]

\* A byte is white space for strings.TrimSpace: \t, \n, \v, \f, \r and the space.
IsSpace(c) == c \in {9, 10, 11, 12, 13, 32}

\* strings.TrimLeft / strings.TrimRight by white space
RECURSIVE TrimLeft(_)
TrimLeft(s) == IF s # <<>> /\ IsSpace(Head(s)) THEN TrimLeft(Tail(s)) ELSE s

RECURSIVE TrimRight(_)
TrimRight(s) ==
    IF s # <<>> /\ IsSpace(s[Len(s)]) THEN TrimRight(SubSeq(s, 1, Len(s) - 1)) ELSE s

\* strings.TrimSpace(s)
TrimSpace(s) == TrimRight(TrimLeft(s))

\* strings.ToLower(s), s of ASCII bytes: 'A'..'Z' become 'a'..'z'
ToLower(s) == [i \in DOMAIN s |-> IF s[i] \in 65..90 THEN s[i] + 32 ELSE s[i]]

\* strings.ToUpper(s), s of ASCII bytes
ToUpper(s) == [i \in DOMAIN s |-> IF s[i] \in 97..122 THEN s[i] - 32 ELSE s[i]]

\* parseStrategy comparing the string as it was given.
parseStrategyExact(strategyStr) ==
    LET s == strategyStr
    IN  CASE s \in {StrategyNames.roundrobin, StrategyNames.round_robin, StrategyNames.rr} -> RoundRobin
          [] s \in {StrategyNames.random, StrategyNames.rand} -> Random
          [] s \in {StrategyNames.weighted, StrategyNames.weightedroundrobin, StrategyNames.weighted_round_robin, StrategyNames.wrr}
                -> WeightedRoundRobin
          [] s \in {StrategyNames.leastconnections, StrategyNames.least_connections, StrategyNames.lc} -> LeastConnections
          [] s \in {StrategyNames.iphash, StrategyNames.ip_hash, StrategyNames.hash} -> IPHash
          [] OTHER -> RoundRobin

\* func parseStrategy(strategyStr string) LoadBalancingStrategy
parseStrategy(strategyStr) ==
    LET s == ToLower(TrimSpace(strategyStr))
    IN  CASE s \in {StrategyNames.roundrobin, StrategyNames.round_robin, StrategyNames.rr} -> RoundRobin
          [] s \in {StrategyNames.random, StrategyNames.rand} -> Random
          [] s \in {StrategyNames.weighted, StrategyNames.weightedroundrobin, StrategyNames.weighted_round_robin, StrategyNames.wrr}
                -> WeightedRoundRobin
          [] s \in {StrategyNames.leastconnections, StrategyNames.least_connections, StrategyNames.lc} -> LeastConnections
          [] s \in {StrategyNames.iphash, StrategyNames.ip_hash, StrategyNames.hash} -> IPHash
          [] OTHER -> RoundRobin

\* func getConfiguredStrategy() LoadBalancingStrategy: the -strategy flag when it is
\* not empty, else LB_STRATEGY when it is not empty, else RoundRobin.
getConfiguredStrategy(strategyFlag, envStrategy) ==
    IF strategyFlag # <<>> THEN parseStrategy(strategyFlag)
    ELSE IF envStrategy # <<>> THEN parseStrategy(envStrategy)
    ELSE RoundRobin

\* The strings parseStrategy knows.
KnownWords ==
    {StrategyNames.roundrobin, StrategyNames.round_robin, StrategyNames.rr, StrategyNames.random, StrategyNames.rand, StrategyNames.weighted,
     StrategyNames.weightedroundrobin, StrategyNames.weighted_round_robin, StrategyNames.wrr, StrategyNames.leastconnections,
     StrategyNames.least_connections, StrategyNames.lc, StrategyNames.iphash, StrategyNames.ip_hash, StrategyNames.hash}

\* Strings it does not know: "fastest", "round robin", "ip_hash", "weight".
UnknownWords ==
    {<<102, 97, 115, 116, 101, 115, 116>>,
     <<114, 111, 117, 110, 100, 32, 114, 111, 98, 105, 110>>,
     <<105, 112, 95, 104, 97, 115, 104>>,
     <<119, 101, 105, 103, 104, 116>>}

\* Values of the -strategy flag and of LB_STRATEGY: the words as they are, in upper
\* case, with a capital first letter, and with white space around them; and "".
ConfigStrings ==
    LET words == KnownWords \cup UnknownWords
    IN  {<<>>} \cup words \cup {ToUpper(w) : w \in words}
            \cup {ToUpper(SubSeq(w, 1, 1)) \o SubSeq(w, 2, Len(w)) : w \in words}
            \cup {<<32>> \o w \o <<9, 10>> : w \in words}
            \cup {<<13, 32>> \o ToUpper(w) : w \in words}

\* Values of the -strategy flag: absent, " LC" and "fastest".
FlagStrings == {<<>>, <<32, 76, 67>>, <<102, 97, 115, 116, 101, 115, 116>>}

\* The weights of the README's Weighted Round Robin example, in registration order:
\* backend1 (A) 1, backend2 (B) 3, backend3 (C) 2.
DocWeights == <<1, 3, 2>>
Weights == 0..MaxWeight

VARIABLES
    backends,         \* lb.backends: sequence of Backend records
    main,             \* func main: where it is, its configuration and what discovery gave it
    backendMutex,     \* per backend, Backend.mutex: the goroutine holding it exclusively (0: none)
                      \* and those holding it shared
    conn,             \* per goroutine running a Backend method statement by statement: where
                      \* it is, and on which backend
    ping,             \* the goroutine running pingHandler: where it is and its locals
    strategy,         \* lb.strategy
    roundRobinIndex,  \* lb.roundRobinIndex
    weightedIndex,    \* lb.weightedIndex
    lbMutex,          \* lb.mutex: 0 when free, else the goroutine holding it
    serving,          \* main has called server.ListenAndServe()
    pc,               \* where each request goroutine is
    request,          \* proxyHandler: r, the headers and peer address getClientIP reads
    clientIP,         \* proxyHandler: clientIP
    healthyBackends,  \* GetBackend: healthyBackends (positions in lb.backends)
    idx,              \* the position a range loop of GetBackend has reached
    selected,         \* leastConnectionsSelect: selected
    minConnections,   \* leastConnectionsSelect: minConnections
    backend,          \* proxyHandler: backend (0 is nil)
    status,           \* the status code of the response last written
    \* -- environment
    available,        \* per backend: the server behind its URL accepts and answers requests
    \* -- observations (not program state)
    callObs,          \* per goroutine: what held while its GetBackend call ran
    selLog,           \* backends the cursor strategies returned since the healthy subset last changed
                      \* (a call that computed its subset before the change starts the log anew)
    served,           \* per client: backends IPHash returned to it since then
    firstServed,      \* per client: the backend IPHash returned to its first request (0: none yet)
    lastOp,           \* the Backend-changing operation that produced this state, if one did
    budget,           \* calls of IncrementConnections the model still admits
    \* -- the simple proxy (the second package main of main.go)
    simpleProxy       \* its globals backends and backendIndex, and per request goroutine
                      \* where it is and its local backend

vars == <<simpleProxy, main, backendMutex, conn, ping, backends, strategy, roundRobinIndex, weightedIndex, lbMutex, serving, pc, request,
          clientIP, healthyBackends, idx, selected, minConnections, backend, status, available,
          callObs, selLog, served, firstServed, lastOp, budget>>

lbVars == <<strategy, roundRobinIndex, weightedIndex, lbMutex, serving>>
localVars == <<request, clientIP, healthyBackends, idx, selected, minConnections, backend, status>>

\* ------------------------------------------------------------ helpers
Range(s) == {s[i] : i \in DOMAIN s}

Count(s, x) == Cardinality({i \in DOMAIN s : s[i] = x})

NoBackend == [URL |-> "", Weight |-> 0, ActiveRequests |-> 0, TotalRequests |-> 0,
              LastRequestTime |-> 0, Healthy |-> FALSE]

NoOp == [op |-> "none", b |-> 0, pre |-> NoBackend]

\* A Backend.mutex nobody holds.
Unlocked == [w |-> 0, r |-> {}]

\* The goroutine that runs Backend methods statement by statement while /ping is
\* served (SpecStats): one writer against the reader.
Writers == {1}

\* A goroutine that is in no Backend method.
NoConn == [pc |-> "idle", op |-> "none", b |-> 0]

\* pingHandler is not running.
NoPing == [pc |-> "idle", i |-> 0, active |-> 0, total |-> 0, time |-> 0,
           atLock |-> <<0, 0, 0>>, totalRequests |-> 0, row |-> <<0, 0, FALSE>>]

\* time.Now().  0 is the zero time.Time and every instant read from the clock is
\* the one value 1: the program stores LastRequestTime and never compares two times.
Now == 1

\* url.Parse(backend.URL) succeeds.
URLParses(u) == u # BadURL

\* Go's % on int: the result has the sign of the dividend.
GoMod(a, n) ==
    IF a >= 0 THEN a % n
    ELSE IF a = MinInt THEN -((-(a + n)) % n)   \* -MinInt is not an int
    ELSE -((-a) % n)

\* ---------------------------------------------------- hash/fnv, New32a
\* A 32-bit value is kept as <<high 16 bits, low 16 bits>>.
RECURSIVE Xor(_, _, _)
Xor(a, b, bits) ==
    IF bits = 0 THEN 0
    ELSE (((a % 2) + (b % 2)) % 2) + 2 * Xor(a \div 2, b \div 2, bits - 1)

FnvOffset32 == <<33052, 40389>>    \* 2166136261 = 0x811C9DC5
FnvPrime32Low == 403               \* 16777619 = 2^24 + 403

\* hash ^= byte; hash *= prime32 (mod 2^32)
FnvStep(h, byte) ==
    LET lo == Xor(h[2], byte, 16)
        hi == h[1]
        p  == lo * FnvPrime32Low
    IN  << ((hi * FnvPrime32Low) + (p \div 65536) + ((lo % 256) * 256)) % 65536, p % 65536 >>

\* h is a uint32: each half lies in 0..65535.
IsUint32(h) == h[1] \in 0..65535 /\ h[2] \in 0..65535

\* for _, c := range data { hash ^= sum32a(c); hash *= prime32 }, from byte i on.  The
\* test on h holds for every value FnvStep gives; it has h computed byte by byte.
RECURSIVE FnvFrom(_, _, _)
FnvFrom(h, bytes, i) ==
    IF i > Len(bytes) \/ ~IsUint32(h) THEN h ELSE FnvFrom(FnvStep(h, bytes[i]), bytes, i + 1)

Sum32a(bytes) == FnvFrom(FnvOffset32, bytes, 1)

\* hasher.Write([]byte(clientIP)); hasher.Sum32(), for each client identity
ClientHash == [ip \in Keys |-> Sum32a(ip)]

\* int(hash) % n: int is 64 bits wide on the platforms built (amd64, arm64), so
\* int(hash) is the unsigned value and the remainder is not negative.
HashMod(h, n) == (((h[1] % n) * (65536 % n)) + (h[2] % n)) % n

\* ------------------------------------------------------- Backend methods
\* IncrementConnections counting the active request only.
IncrementActiveOnly(b) == [b EXCEPT !.ActiveRequests = @ + 1]

\* func (b *Backend) IncrementConnections()
IncrementConnections(b) ==
    [b EXCEPT !.ActiveRequests = @ + 1, !.TotalRequests = @ + 1, !.LastRequestTime = Now]

\* DecrementConnections doing nothing.
DecrementSkipped(b) == b

\* DecrementConnections without its guard.
DecrementUnguarded(b) == [b EXCEPT !.ActiveRequests = @ - 1]

\* func (b *Backend) DecrementConnections()
DecrementConnections(b) ==
    IF b.ActiveRequests > 0 THEN [b EXCEPT !.ActiveRequests = @ - 1] ELSE b

\* An error handler that toggles the flag instead of clearing it.
ToggleHealthy(b) == [b EXCEPT !.Healthy = ~@]

\* An error handler that also takes the backend out of the weighted rotation.
MarkUnhealthyNoWeight(b) == [b EXCEPT !.Healthy = FALSE, !.Weight = 0]

\* proxy.ErrorHandler: backend.Healthy = false
MarkUnhealthy(b) == [b EXCEPT !.Healthy = FALSE]

\* AddBackend: &Backend{URL: url, Weight: weight, Healthy: true}
NewBackend(url, weight) ==
    [URL |-> url, Weight |-> weight, ActiveRequests |-> 0, TotalRequests |-> 0,
     LastRequestTime |-> 0, Healthy |-> TRUE]

\* ---------------------------------------------------- strategy selectors
\* Each takes the healthy subset hb (positions in lb.backends, len(hb) > 0).

\* roundRobinSelect ignoring its cursor.
RoundRobinPickFirst(hb, cursor) == hb[1]

\* roundRobinSelect: backends[lb.roundRobinIndex%len(backends)]
RoundRobinPick(hb, cursor) == hb[GoMod(cursor, Len(hb)) + 1]

\* weightedRoundRobinSelect: totalWeight
RECURSIVE TotalWeight(_, _)
TotalWeight(hb, i) ==
    IF i > Len(hb) THEN 0 ELSE backends[hb[i]].Weight + TotalWeight(hb, i + 1)

\* The walk comparing with <= instead of <.
RECURSIVE WeightedWalkOffByOne(_, _, _, _)
WeightedWalkOffByOne(hb, i, currentWeight, cursor) ==
    IF i > Len(hb) THEN hb[1]
    ELSE LET cw == currentWeight + backends[hb[i]].Weight
         IN  IF cursor <= cw THEN hb[i] ELSE WeightedWalkOffByOne(hb, i + 1, cw, cursor)

\* The walk replaced by its fallback, backends[0].
WeightedWalkFallback(hb, i, currentWeight, cursor) == hb[1]

\* weightedRoundRobinSelect: the cumulative-weight walk, with its fallback
RECURSIVE WeightedWalk(_, _, _, _)
WeightedWalk(hb, i, currentWeight, cursor) ==
    IF i > Len(hb) THEN hb[1]
    ELSE LET cw == currentWeight + backends[hb[i]].Weight
         IN  IF cursor < cw THEN hb[i] ELSE WeightedWalk(hb, i + 1, cw, cursor)

\* The cursor advanced without the reduction modulo totalWeight.
WeightedAdvanceNoMod(cursor, totalWeight) == cursor + 1

\* The cursor left where it is.
WeightedStay(cursor, totalWeight) == GoMod(cursor, totalWeight)

\* lb.weightedIndex = (lb.weightedIndex + 1) % totalWeight
WeightedAdvance(cursor, totalWeight) == GoMod(cursor + 1, totalWeight)

\* ipHashSelect with the hash salted by the requests handled so far.
IPHashPickSalted(hb, ip) == hb[((HashMod(ClientHash[ip], Len(hb)) + budget) % Len(hb)) + 1]

\* ipHashSelect: backends[int(hash)%len(backends)]
IPHashPick(hb, ip) == hb[HashMod(ClientHash[ip], Len(hb)) + 1]

\* The loop without its comparison: the last healthy backend wins.
LeastConnectionsStepAny(sel, b) == <<b, backends[b].ActiveRequests>>

\* The loop comparing with <= instead of <: the last of several minima wins.
LeastConnectionsStepLast(sel, b) ==
    IF backends[b].ActiveRequests <= sel[2]
    THEN <<b, backends[b].ActiveRequests>>
    ELSE sel

\* leastConnectionsSelect: one iteration of the loop, on <<selected, minConnections>>
LeastConnectionsStep(sel, b) ==
    IF backends[b].ActiveRequests < sel[2]
    THEN <<b, backends[b].ActiveRequests>>
    ELSE sel

\* getHealthyBackends without the Healthy test, and with the test inverted.
HealthyStepAll(healthy, b) == Append(healthy, b)
HealthyStepInverted(healthy, b) ==
    IF backends[b].Healthy THEN healthy ELSE Append(healthy, b)

\* getHealthyBackends: one iteration of the loop
HealthyStep(healthy, b) ==
    IF backends[b].Healthy THEN Append(healthy, b) ELSE healthy

\* The simple proxy before its main has run: var backends []string; var backendIndex = 0
NoSimple == [backends |-> <<>>, backendIndex |-> 0,
             pc |-> [g \in Threads |-> "idle"], backend |-> [g \in Threads |-> ""],
             next |-> [g \in Threads |-> 0], handled |-> <<>>]

\* ------------------------------------------------------- observations
\* The healthy subset of the current state: the healthy positions, in registration
\* order.
HealthySubset ==
    SelectSeq([i \in 1..Len(backends) |-> i], LAMBDA i : backends[i].Healthy)

\* The backends b such that no healthy backend has fewer ActiveRequests than b.
MinNow(bs) ==
    {b \in DOMAIN bs :
        \A h \in DOMAIN bs : bs[h].Healthy => bs[h].ActiveRequests >= bs[b].ActiveRequests}

\* A goroutine is inside GetBackend from the call to the return.
InCall(t) == pc[t] \in {"lock", "scan", "rrAdvance", "wrrWalk", "lcScan"}

NoObs == [startHealth |-> <<>>, minSeen |-> {}, observed |-> <<>>, changed |-> FALSE]

\* What the calls in progress see of a step that leaves the backends as bs.
\* minSeen (up to the return) and changed (until the handler uses the result) are
\* kept for LeastConnections only: no other strategy reads a counter.
Observe(bs) ==
    [t \in DOMAIN pc |->
        IF strategy = LeastConnections /\ (InCall(t) \/ pc[t] = "afterGet")
        THEN [callObs[t] EXCEPT
                !.minSeen = IF InCall(t) THEN @ \cup MinNow(bs) ELSE @,
                !.changed = @ \/ (\E b \in DOMAIN backends :
                                    bs[b].ActiveRequests # backends[b].ActiveRequests)]
        ELSE callObs[t]]

NoServed == [c \in Keys |-> <<>>]

\* pingHandler is between loadBalancer.mutex.RLock() and loadBalancer.mutex.RUnlock().
PingHoldsRegistry == ping.pc \in {"rlock", "readActive", "readTotal", "readTime", "runlock", "returned"}

\* Requests that have not yet reached their IncrementConnections.
Pending == Cardinality({t \in DOMAIN pc : InCall(t) \/ pc[t] = "afterGet"})

\* The model admits one more call of IncrementConnections.
Admit == budget > Pending

\* The model admits one more request: one that may reach IncrementConnections, or
\* one that cannot because no backend is healthy.
AdmitRequest == Admit \/ \A b \in DOMAIN backends : ~backends[b].Healthy


-----------------------------------------------------------------------------
\* ------------------------------------------------------------- actions

\* AddBackend that does not register a URL the list already has.
AddBackendDedup(url, weight) ==
    /\ lbMutex = 0
    /\ backends' = IF \E b \in DOMAIN backends : backends[b].URL = url
                   THEN backends ELSE Append(backends, NewBackend(url, weight))
    /\ available' = IF Len(backends') > Len(backends) THEN Append(available, TRUE) ELSE available
    /\ backendMutex' = IF Len(backends') > Len(backends) THEN Append(backendMutex, Unlocked)
                       ELSE backendMutex
    /\ callObs' = Observe(backends')
    /\ selLog' = <<>>
    /\ served' = NoServed
    /\ UNCHANGED firstServed
    /\ lastOp' = [op |-> "AddBackend", b |-> Len(backends) + 1,
                  pre |-> [NoBackend EXCEPT !.URL = url, !.Weight = weight]]
    /\ UNCHANGED <<budget, lbVars, main, conn, ping, simpleProxy, pc, localVars>>

\* func (lb *LoadBalancer) AddBackend(url string, weight int)
\* (lastOp.pre holds the arguments of the call in its URL and Weight)
AddBackend(url, weight) ==
    /\ lbMutex = 0 /\ ~PingHoldsRegistry
    /\ backends' = Append(backends, NewBackend(url, weight))
    /\ backendMutex' = Append(backendMutex, Unlocked)
    /\ available' = Append(available, TRUE)
    /\ callObs' = Observe(backends')
    /\ selLog' = <<>>
    /\ served' = NoServed
    /\ UNCHANGED firstServed
    /\ lastOp' = [op |-> "AddBackend", b |-> Len(backends) + 1,
                  pre |-> [NoBackend EXCEPT !.URL = url, !.Weight = weight]]
    /\ UNCHANGED <<budget, lbVars, main, conn, ping, simpleProxy, pc, localVars>>

\* A direct call of b.IncrementConnections(), as the unit tests make.
CallIncrement(b) ==
    /\ backends[b].ActiveRequests < MaxActive
    /\ Admit
    /\ budget' = budget - 1
    /\ backends' = [backends EXCEPT ![b] = IncrementConnections(@)]
    /\ callObs' = Observe(backends')
    /\ lastOp' = [op |-> "IncrementConnections", b |-> b, pre |-> backends[b]]
    /\ UNCHANGED <<available, lbVars, main, backendMutex, conn, ping, simpleProxy, pc, localVars, selLog, served, firstServed>>

\* A direct call of b.DecrementConnections().
CallDecrement(b) ==
    /\ backends' = [backends EXCEPT ![b] = DecrementConnections(@)]
    /\ callObs' = Observe(backends')
    /\ lastOp' = [op |-> "DecrementConnections", b |-> b, pre |-> backends[b]]
    /\ UNCHANGED <<available, budget, lbVars, main, backendMutex, conn, ping, simpleProxy, pc, localVars, selLog, served, firstServed>>

\* proxyHandler is entered: clientIP := getClientIP(r), then GetBackend is called.
HandlerEntry(t, r) ==
    /\ serving
    /\ pc[t] = "idle"
    /\ AdmitRequest
    /\ pc' = [pc EXCEPT ![t] = "lock"]
    /\ request' = [request EXCEPT ![t] = r]
    /\ clientIP' = [clientIP EXCEPT ![t] = getClientIP(r)]
    /\ callObs' = [callObs EXCEPT ![t] =
            [startHealth |-> [i \in DOMAIN backends |-> backends[i].Healthy],
             minSeen |-> IF strategy = LeastConnections THEN MinNow(backends) ELSE {},
             observed |-> <<>>,
             changed |-> FALSE]]
    /\ lastOp' = NoOp
    /\ UNCHANGED <<available, backends, lbVars, main, backendMutex, conn, ping, simpleProxy, healthyBackends, idx, selected, minConnections,
                   backend, status, selLog, served, firstServed, budget>>

\* GetBackend entered without taking lb.mutex.
LockFree(t) ==
    /\ pc[t] = "lock"
    /\ pc' = [pc EXCEPT ![t] = "scan"]
    /\ idx' = [idx EXCEPT ![t] = 1]
    /\ healthyBackends' = [healthyBackends EXCEPT ![t] = <<>>]
    /\ lastOp' = NoOp
    /\ UNCHANGED <<available, budget, backends, lbVars, main, backendMutex, conn, ping, simpleProxy, request, clientIP, selected,
                   minConnections, backend, status, callObs, selLog, served, firstServed>>

\* GetBackend: lb.mutex.Lock()
Lock(t) ==
    /\ pc[t] = "lock"
    /\ lbMutex = 0 /\ ~PingHoldsRegistry
    /\ lbMutex' = t
    /\ pc' = [pc EXCEPT ![t] = "scan"]
    /\ idx' = [idx EXCEPT ![t] = 1]
    /\ healthyBackends' = [healthyBackends EXCEPT ![t] = <<>>]
    /\ lastOp' = NoOp
    /\ UNCHANGED <<available, budget, backends, strategy, main, backendMutex, conn, ping, simpleProxy, serving, roundRobinIndex, weightedIndex, request, clientIP, selected,
                   minConnections, backend, status, callObs, selLog, served, firstServed>>

\* getHealthyBackends: one iteration of the loop over lb.backends
ScanStep(t) ==
    /\ pc[t] = "scan"
    /\ idx[t] <= Len(backends)
    /\ backendMutex[idx[t]].w = 0    \* backend.mutex.RLock() ... RUnlock() around the read
    /\ healthyBackends' = [healthyBackends EXCEPT ![t] = HealthyStep(@, idx[t])]
    /\ idx' = [idx EXCEPT ![t] = @ + 1]
    /\ lastOp' = NoOp
    /\ UNCHANGED <<available, budget, backends, lbVars, main, backendMutex, conn, ping, simpleProxy, pc, request, clientIP, selected, minConnections, backend,
                   status, callObs, selLog, served, firstServed>>

\* GetBackend returns b (0: nil); the deferred lb.mutex.Unlock() runs.
Return(t, b) ==
    /\ backend' = [backend EXCEPT ![t] = b]
    /\ lbMutex' = 0
    /\ pc' = [pc EXCEPT ![t] = "afterGet"]
    /\ idx' = [idx EXCEPT ![t] = 0]
    /\ selected' = [selected EXCEPT ![t] = 0]
    /\ minConnections' = [minConnections EXCEPT ![t] = 0]
    /\ selLog' = IF b # 0 /\ strategy \in {RoundRobin, WeightedRoundRobin}
                 THEN IF healthyBackends[t] = HealthySubset THEN Append(selLog, b) ELSE <<>>
                 ELSE selLog
    /\ served' = IF b # 0 /\ strategy = IPHash
                 THEN [served EXCEPT ![clientIP[t]] = Append(@, b)] ELSE served
    /\ firstServed' = IF b # 0 /\ strategy = IPHash /\ firstServed[clientIP[t]] = 0
                      THEN [firstServed EXCEPT ![clientIP[t]] = b] ELSE firstServed
    /\ lastOp' = NoOp
    /\ UNCHANGED <<available, budget, backends, strategy, main, backendMutex, conn, ping, simpleProxy, serving, request, clientIP, healthyBackends, status, callObs>>

\* The healthy subset has been computed.
Scanned(t) == pc[t] = "scan" /\ idx[t] > Len(backends)

\* GetBackend: if len(healthyBackends) == 0 { return nil }
ReturnNil(t) ==
    /\ Scanned(t)
    /\ Len(healthyBackends[t]) = 0
    /\ Return(t, 0)
    /\ UNCHANGED <<roundRobinIndex, weightedIndex>>

\* roundRobinSelect: backend := backends[lb.roundRobinIndex%len(backends)]
\* (selected[t] holds the selector's local variable)
RoundRobinRead(t) ==
    /\ GoMod(roundRobinIndex, Len(healthyBackends[t])) >= 0
    /\ selected' = [selected EXCEPT ![t] = RoundRobinPick(healthyBackends[t], roundRobinIndex)]
    /\ pc' = [pc EXCEPT ![t] = "rrAdvance"]
    /\ lastOp' = NoOp
    /\ UNCHANGED <<available, budget, backends, lbVars, main, backendMutex, conn, ping, simpleProxy, request, clientIP, healthyBackends, idx,
                   minConnections, backend, status, callObs, selLog, served, firstServed>>

\* case RoundRobin (and default): lb.roundRobinSelect(healthyBackends)
RoundRobinSelect(t) ==
    /\ Scanned(t)
    /\ Len(healthyBackends[t]) > 0
    /\ strategy \notin {Random, WeightedRoundRobin, LeastConnections, IPHash}
    /\ RoundRobinRead(t)

\* roundRobinSelect returning without lb.roundRobinIndex++.
RoundRobinKeep(t) ==
    /\ pc[t] = "rrAdvance"
    /\ Return(t, selected[t])
    /\ UNCHANGED <<roundRobinIndex, weightedIndex>>

\* roundRobinSelect: lb.roundRobinIndex++; return backend
RoundRobinAdvance(t) ==
    /\ pc[t] = "rrAdvance"
    /\ roundRobinIndex' = IntIncrement(roundRobinIndex)
    /\ Return(t, selected[t])
    /\ UNCHANGED weightedIndex

\* roundRobinSelect: the index expression of backends[lb.roundRobinIndex%len(backends)]
\* is negative: the run-time panics (index out of range), the deferred
\* lb.mutex.Unlock() of GetBackend runs, and net/http recovers the panic of the
\* request's goroutine and closes the connection without a response.
RoundRobinPanic(t) ==
    /\ Scanned(t)
    /\ Len(healthyBackends[t]) > 0
    /\ strategy \notin {Random, WeightedRoundRobin, LeastConnections, IPHash}
    /\ GoMod(roundRobinIndex, Len(healthyBackends[t])) < 0
    /\ lbMutex' = 0
    /\ pc' = [pc EXCEPT ![t] = "idle"]
    /\ idx' = [idx EXCEPT ![t] = 0]
    /\ clientIP' = [clientIP EXCEPT ![t] = <<>>]
    /\ request' = [request EXCEPT ![t] = NoRequest]
    /\ lastOp' = NoOp
    /\ UNCHANGED <<available, budget, backends, strategy, main, backendMutex, conn, ping, simpleProxy,
                   serving, roundRobinIndex, weightedIndex, healthyBackends, selected,
                   minConnections, backend, status, callObs, selLog, served, firstServed>>

\* The switch without its case Random: the default, roundRobinSelect, is taken.
RandomAsDefault(t) ==
    /\ Scanned(t)
    /\ Len(healthyBackends[t]) > 0
    /\ strategy = Random
    /\ RoundRobinRead(t)

\* case Random: backends[rand.Intn(len(backends))]
RandomSelect(t) ==
    /\ Scanned(t)
    /\ Len(healthyBackends[t]) > 0
    /\ strategy = Random
    /\ \E k \in 0..(Len(healthyBackends[t]) - 1) : Return(t, healthyBackends[t][k + 1])
    /\ UNCHANGED <<roundRobinIndex, weightedIndex>>

\* case WeightedRoundRobin: lb.weightedRoundRobinSelect(healthyBackends)
WeightedRoundRobinSelect(t) ==
    /\ Scanned(t)
    /\ Len(healthyBackends[t]) > 0
    /\ strategy = WeightedRoundRobin
    /\ LET hb == healthyBackends[t]
           totalWeight == TotalWeight(hb, 1)
       IN  IF totalWeight = 0
           THEN RoundRobinRead(t)
           ELSE /\ weightedIndex' = WeightedAdvance(weightedIndex, totalWeight)
                /\ pc' = [pc EXCEPT ![t] = "wrrWalk"]
                /\ lastOp' = NoOp
                /\ UNCHANGED <<available, budget, backends, strategy, main, backendMutex, conn, ping, simpleProxy, roundRobinIndex, lbMutex,
                               serving, localVars, callObs, selLog, served, firstServed>>

\* weightedRoundRobinSelect: the loop that compares lb.weightedIndex with the
\* cumulative weights, and the return
WeightedRoundRobinWalk(t) ==
    /\ pc[t] = "wrrWalk"
    /\ Return(t, WeightedWalk(healthyBackends[t], 1, 0, weightedIndex))
    /\ UNCHANGED <<roundRobinIndex, weightedIndex>>

\* case IPHash: lb.ipHashSelect(healthyBackends, clientIP)
IPHashSelect(t) ==
    /\ Scanned(t)
    /\ Len(healthyBackends[t]) > 0
    /\ strategy = IPHash
    /\ Return(t, IPHashPick(healthyBackends[t], clientIP[t]))
    /\ UNCHANGED <<roundRobinIndex, weightedIndex>>

\* case LeastConnections: leastConnectionsSelect is entered
LeastConnectionsBegin(t) ==
    /\ Scanned(t)
    /\ Len(healthyBackends[t]) > 0
    /\ strategy = LeastConnections
    /\ pc' = [pc EXCEPT ![t] = "lcScan"]
    /\ idx' = [idx EXCEPT ![t] = 1]
    /\ selected' = [selected EXCEPT ![t] = 0]
    /\ minConnections' = [minConnections EXCEPT ![t] = MaxInt]
    /\ lastOp' = NoOp
    /\ UNCHANGED <<available, budget, backends, lbVars, main, backendMutex, conn, ping, simpleProxy, request, clientIP, healthyBackends, backend, status, callObs,
                   selLog, served, firstServed>>

\* leastConnectionsSelect: one iteration of the loop over the healthy subset
LeastConnectionsScan(t) ==
    /\ pc[t] = "lcScan"
    /\ idx[t] <= Len(healthyBackends[t])
    /\ LET b == healthyBackends[t][idx[t]]
           sel == LeastConnectionsStep(<<selected[t], minConnections[t]>>, b)
       IN  /\ selected' = [selected EXCEPT ![t] = sel[1]]
           /\ minConnections' = [minConnections EXCEPT ![t] = sel[2]]
           /\ callObs' = [callObs EXCEPT ![t].observed = Append(@, backends[b].ActiveRequests)]
           /\ lastOp' = NoOp
    /\ idx' = [idx EXCEPT ![t] = @ + 1]
    /\ UNCHANGED <<available, budget, backends, lbVars, main, backendMutex, conn, ping, simpleProxy, pc, request, clientIP, healthyBackends, backend, status,
                   selLog, served, firstServed>>

\* leastConnectionsSelect: return selected
LeastConnectionsReturn(t) ==
    /\ pc[t] = "lcScan"
    /\ idx[t] > Len(healthyBackends[t])
    /\ Return(t, selected[t])
    /\ UNCHANGED <<roundRobinIndex, weightedIndex>>

\* proxyHandler calling GetBackend again when it returned nil.
NoBackendRetry(t) ==
    /\ pc[t] = "afterGet"
    /\ backend[t] = 0
    /\ pc' = [pc EXCEPT ![t] = "lock"]
    /\ lastOp' = NoOp
    /\ UNCHANGED <<available, budget, backends, lbVars, main, backendMutex, conn, ping, simpleProxy, localVars, callObs, selLog, served, firstServed>>

\* proxyHandler: backend == nil, http.Error(w, ..., http.StatusServiceUnavailable)
NoBackendAvailable(t) ==
    /\ pc[t] = "afterGet"
    /\ backend[t] = 0
    /\ status' = [status EXCEPT ![t] = StatusServiceUnavailable]
    /\ pc' = [pc EXCEPT ![t] = "return"]
    /\ healthyBackends' = [healthyBackends EXCEPT ![t] = <<>>]
    /\ callObs' = [callObs EXCEPT ![t] = NoObs]
    /\ lastOp' = NoOp
    /\ UNCHANGED <<available, budget, backends, lbVars, main, backendMutex, conn, ping, simpleProxy, request, clientIP, idx, selected, minConnections, backend,
                   selLog, served, firstServed>>

\* proxyHandler: backend.IncrementConnections(); defer backend.DecrementConnections()
TrackConnection(t) ==
    /\ pc[t] = "afterGet"
    /\ backend[t] # 0
    /\ backendMutex[backend[t]] = Unlocked    \* b.mutex.Lock() ... Unlock() around the body
    /\ backends' = [backends EXCEPT ![backend[t]] = IncrementConnections(@)]
    /\ pc' = [pc EXCEPT ![t] = "forward"]
    /\ healthyBackends' = [healthyBackends EXCEPT ![t] = <<>>]
    /\ callObs' = [Observe(backends') EXCEPT ![t] = NoObs]
    /\ lastOp' = [op |-> "IncrementConnections", b |-> backend[t], pre |-> backends[backend[t]]]
    /\ budget' = budget - 1
    /\ UNCHANGED <<available, lbVars, main, backendMutex, conn, ping, simpleProxy, request, clientIP, idx, selected, minConnections, backend, status,
                   selLog, served, firstServed>>

\* proxyHandler: url.Parse(backend.URL) fails,
\* http.Error(w, "Invalid backend URL", http.StatusInternalServerError); return
InvalidBackendURL(t) ==
    /\ pc[t] = "forward"
    /\ ~URLParses(backends[backend[t]].URL)
    /\ status' = [status EXCEPT ![t] = StatusInternalServerError]
    /\ pc' = [pc EXCEPT ![t] = "deferred"]
    /\ lastOp' = NoOp
    /\ UNCHANGED <<available, budget, backends, lbVars, main, backendMutex, conn, ping, simpleProxy, request, clientIP, healthyBackends, idx, selected,
                   minConnections, backend, callObs, selLog, served, firstServed>>

\* proxyHandler: proxy.ServeHTTP(w, r) forwards the request and the backend answers
ForwardOK(t) ==
    /\ pc[t] = "forward"
    /\ URLParses(backends[backend[t]].URL)
    /\ available[backend[t]]
    /\ status' = [status EXCEPT ![t] = StatusOK]
    /\ pc' = [pc EXCEPT ![t] = "deferred"]
    /\ lastOp' = NoOp
    /\ UNCHANGED <<available, budget, backends, lbVars, main, backendMutex, conn, ping, simpleProxy, request, clientIP, healthyBackends, idx, selected,
                   minConnections, backend, callObs, selLog, served, firstServed>>

\* proxyHandler: proxy.ServeHTTP(w, r) meets a transport error (the server is down, or
\* the connection to a running server fails); proxy.ErrorHandler runs
ForwardError(t) ==
    /\ pc[t] = "forward"
    /\ URLParses(backends[backend[t]].URL)
    /\ backendMutex[backend[t]] = Unlocked    \* backend.mutex.Lock() ... Unlock()
    /\ backends' = [backends EXCEPT ![backend[t]] = MarkUnhealthy(@)]
    /\ status' = [status EXCEPT ![t] = StatusBadGateway]
    /\ pc' = [pc EXCEPT ![t] = "deferred"]
    /\ callObs' = Observe(backends')
    /\ selLog' = IF backends[backend[t]].Healthy THEN <<>> ELSE selLog
    /\ served' = IF backends[backend[t]].Healthy THEN NoServed ELSE served
    /\ UNCHANGED firstServed
    /\ lastOp' = [op |-> "ErrorHandler", b |-> backend[t], pre |-> backends[backend[t]]]
    /\ UNCHANGED <<available, budget, lbVars, main, backendMutex, conn, ping, simpleProxy, request, clientIP, healthyBackends, idx, selected, minConnections, backend>>

\* proxyHandler returns: the deferred backend.DecrementConnections() runs
DeferredDecrement(t) ==
    /\ pc[t] = "deferred"
    /\ backendMutex[backend[t]] = Unlocked    \* b.mutex.Lock() ... Unlock() around the body
    /\ backends' = [backends EXCEPT ![backend[t]] = DecrementConnections(@)]
    /\ pc' = [pc EXCEPT ![t] = "idle"]
    /\ backend' = [backend EXCEPT ![t] = 0]
    /\ clientIP' = [clientIP EXCEPT ![t] = <<>>]
    /\ request' = [request EXCEPT ![t] = NoRequest]
    /\ status' = [status EXCEPT ![t] = 0]
    /\ callObs' = Observe(backends')
    /\ lastOp' = [op |-> "DecrementConnections", b |-> backend[t], pre |-> backends[backend[t]]]
    /\ UNCHANGED <<available, budget, lbVars, main, backendMutex, conn, ping, simpleProxy, healthyBackends, idx, selected, minConnections, selLog, served, firstServed>>

\* proxyHandler returns after the 503 (nothing was deferred)
HandlerReturn(t) ==
    /\ pc[t] = "return"
    /\ pc' = [pc EXCEPT ![t] = "idle"]
    /\ clientIP' = [clientIP EXCEPT ![t] = <<>>]
    /\ request' = [request EXCEPT ![t] = NoRequest]
    /\ status' = [status EXCEPT ![t] = 0]
    /\ lastOp' = NoOp
    /\ UNCHANGED <<available, budget, backends, lbVars, main, backendMutex, conn, ping, simpleProxy, healthyBackends, idx, selected, minConnections,
                   backend, callObs, selLog, served, firstServed>>

\* The server behind backend b stops, and starts again.  The program has no part in
\* either: it learns of a stopped server only through a failed forward.
BackendDown(b) ==
    /\ available[b]
    /\ available' = [available EXCEPT ![b] = FALSE]
    /\ lastOp' = NoOp
    /\ UNCHANGED <<backends, lbVars, main, backendMutex, conn, ping, simpleProxy, pc, localVars, callObs, selLog, served, firstServed, budget>>

BackendUp(b) ==
    /\ ~available[b]
    /\ available' = [available EXCEPT ![b] = TRUE]
    /\ lastOp' = NoOp
    /\ UNCHANGED <<backends, lbVars, main, backendMutex, conn, ping, simpleProxy, pc, localVars, callObs, selLog, served, firstServed, budget>>

-----------------------------------------------------------------------------
\* ------------------------------------- the simple proxy, by statement
lbState == <<main, backendMutex, conn, ping, backends, strategy, roundRobinIndex, weightedIndex,
             lbMutex, serving, pc, request, clientIP, healthyBackends, idx, selected,
             minConnections, backend, status, available, callObs, selLog, served, firstServed,
             lastOp, budget>>

\* proxyHandler taking its backend and advancing backendIndex in one step.
SimpleAtomic(g) ==
    /\ simpleProxy.pc[g] = "idle"
    /\ Len(simpleProxy.handled) < SimpleRequests
    /\ LET url == simpleProxy.backends[simpleProxy.backendIndex + 1]
       IN  simpleProxy' = [simpleProxy EXCEPT
               !.pc[g] = "serve", !.backend[g] = url, !.handled = Append(@, url),
               !.backendIndex = (@ + 1) % Len(simpleProxy.backends)]
    /\ UNCHANGED lbState

\* proxyHandler: backend := backends[backendIndex]
SimpleTake(g) ==
    /\ simpleProxy.pc[g] = "idle"
    /\ Len(simpleProxy.handled) < SimpleRequests
    /\ LET url == simpleProxy.backends[simpleProxy.backendIndex + 1]
       IN  simpleProxy' = [simpleProxy EXCEPT
               !.pc[g] = "load", !.backend[g] = url, !.handled = Append(@, url)]
    /\ UNCHANGED lbState

\* proxyHandler: the right-hand side (backendIndex + 1) % len(backends) is evaluated
SimpleLoad(g) ==
    /\ simpleProxy.pc[g] = "load"
    /\ simpleProxy' = [simpleProxy EXCEPT
           !.pc[g] = "store",
           !.next[g] = (simpleProxy.backendIndex + 1) % Len(simpleProxy.backends)]
    /\ UNCHANGED lbState

\* proxyHandler: backendIndex = <the value evaluated>
SimpleStore(g) ==
    /\ simpleProxy.pc[g] = "store"
    /\ simpleProxy' = [simpleProxy EXCEPT
           !.pc[g] = "serve", !.backendIndex = simpleProxy.next[g], !.next[g] = 0]
    /\ UNCHANGED lbState

\* proxyHandler: url.Parse, NewSingleHostReverseProxy, proxy.ServeHTTP(w, r); return
SimpleServe(g) ==
    /\ simpleProxy.pc[g] = "serve"
    /\ simpleProxy' = [simpleProxy EXCEPT !.pc[g] = "idle", !.backend[g] = ""]
    /\ UNCHANGED lbState

\* ------------------------------------------------------ specifications

\* ------------------------------------- the Backend methods, by statement
\* What the statement-by-statement actions leave alone.
proxyVars == <<simpleProxy, main, lbVars, pc, localVars, available, callObs, selLog, served, firstServed, lastOp>>

\* A goroutine calls b.IncrementConnections(), b.DecrementConnections() or, as the
\* error handler does, locks b to clear its Healthy flag.
ConnCall(g, b, op) ==
    /\ serving
    /\ conn[g].pc = "idle"
    /\ op = "IncrementConnections" => budget > 0
    /\ budget' = IF op = "IncrementConnections" THEN budget - 1 ELSE budget
    /\ conn' = [conn EXCEPT ![g] = [pc |-> "lock", op |-> op, b |-> b]]
    /\ UNCHANGED <<proxyVars, backends, backendMutex, ping, simpleProxy>>

\* b.mutex.Lock(): waits until nobody holds the mutex
ConnLock(g) ==
    /\ conn[g].pc = "lock"
    /\ backendMutex[conn[g].b] = Unlocked
    /\ backendMutex' = [backendMutex EXCEPT ![conn[g].b].w = g]
    /\ conn' = [conn EXCEPT ![g].pc = CASE conn[g].op = "IncrementConnections" -> "active"
                                         [] conn[g].op = "DecrementConnections" -> "check"
                                         [] OTHER -> "healthy"]
    /\ UNCHANGED <<proxyVars, backends, ping, simpleProxy, budget>>

\* IncrementConnections: b.ActiveRequests++
IncrementActive(g) ==
    /\ conn[g].pc = "active"
    /\ backends' = [backends EXCEPT ![conn[g].b].ActiveRequests = @ + 1]
    /\ conn' = [conn EXCEPT ![g].pc = "total"]
    /\ UNCHANGED <<proxyVars, backendMutex, ping, simpleProxy, budget>>

\* IncrementConnections: b.TotalRequests++
IncrementTotal(g) ==
    /\ conn[g].pc = "total"
    /\ backends' = [backends EXCEPT ![conn[g].b].TotalRequests = @ + 1]
    /\ conn' = [conn EXCEPT ![g].pc = "time"]
    /\ UNCHANGED <<proxyVars, backendMutex, ping, simpleProxy, budget>>

\* IncrementConnections: b.LastRequestTime = time.Now()
IncrementTime(g) ==
    /\ conn[g].pc = "time"
    /\ backends' = [backends EXCEPT ![conn[g].b].LastRequestTime = Now]
    /\ conn' = [conn EXCEPT ![g].pc = "unlock"]
    /\ UNCHANGED <<proxyVars, backendMutex, ping, simpleProxy, budget>>

\* DecrementConnections: if b.ActiveRequests > 0 { b.ActiveRequests-- }
DecrementActive(g) ==
    /\ conn[g].pc = "check"
    /\ backends' = [backends EXCEPT ![conn[g].b].ActiveRequests = IF @ > 0 THEN @ - 1 ELSE @]
    /\ conn' = [conn EXCEPT ![g].pc = "unlock"]
    /\ UNCHANGED <<proxyVars, backendMutex, ping, simpleProxy, budget>>

\* proxy.ErrorHandler: backend.Healthy = false
ClearHealthy(g) ==
    /\ conn[g].pc = "healthy"
    /\ backends' = [backends EXCEPT ![conn[g].b].Healthy = FALSE]
    /\ conn' = [conn EXCEPT ![g].pc = "unlock"]
    /\ UNCHANGED <<proxyVars, backendMutex, ping, simpleProxy, budget>>

\* The method returning with the mutex still held.
ConnKeepLock(g) ==
    /\ conn[g].pc = "unlock"
    /\ conn' = [conn EXCEPT ![g] = NoConn]
    /\ UNCHANGED <<proxyVars, backends, backendMutex, ping, budget>>

\* b.mutex.Unlock(), deferred or explicit
ConnUnlock(g) ==
    /\ conn[g].pc = "unlock"
    /\ backendMutex' = [backendMutex EXCEPT ![conn[g].b].w = 0]
    /\ conn' = [conn EXCEPT ![g] = NoConn]
    /\ UNCHANGED <<proxyVars, backends, ping, simpleProxy, budget>>

\* What GetStats returns of a Backend record.
StatsOf(b) == <<b.ActiveRequests, b.TotalRequests, b.LastRequestTime>>

\* pingHandler is entered: loadBalancer.mutex.RLock(), totalRequests is 0, and the loop
\* over loadBalancer.backends begins.  With no backend registered the loop and the
\* template's range have no iteration: the lock is released and the handler returns.
PingEntry ==
    /\ serving
    /\ ping.pc = "idle"
    /\ lbMutex = 0
    /\ ping' = IF Len(backends) = 0 THEN NoPing ELSE [NoPing EXCEPT !.pc = "rlock", !.i = 1]
    /\ UNCHANGED <<proxyVars, backends, backendMutex, conn, budget>>

\* GetStats entered without taking the mutex.
GetStatsNoLock ==
    /\ ping.pc = "rlock"
    /\ ping.i <= Len(backends)
    /\ backendMutex' = [backendMutex EXCEPT ![ping.i].r = @ \cup {"ping"}]
    /\ ping' = [ping EXCEPT !.pc = "readActive", !.atLock = StatsOf(backends[ping.i])]
    /\ UNCHANGED <<proxyVars, backends, conn, budget>>

\* GetStats: b.mutex.RLock(): waits until nobody holds the mutex exclusively.
\* (atLock observes the backend at this instant.)
GetStatsRLock ==
    /\ ping.pc = "rlock"
    /\ ping.i <= Len(backends)
    /\ backendMutex[ping.i].w = 0
    /\ backendMutex' = [backendMutex EXCEPT ![ping.i].r = @ \cup {"ping"}]
    /\ ping' = [ping EXCEPT !.pc = "readActive", !.atLock = StatsOf(backends[ping.i])]
    /\ UNCHANGED <<proxyVars, backends, conn, budget>>

\* GetStats: return b.ActiveRequests, b.TotalRequests, b.LastRequestTime: the three
\* operands are read one after the other
GetStatsReadActive ==
    /\ ping.pc = "readActive"
    /\ ping' = [ping EXCEPT !.pc = "readTotal", !.active = backends[ping.i].ActiveRequests]
    /\ UNCHANGED <<proxyVars, backends, backendMutex, conn, budget>>

GetStatsReadTotal ==
    /\ ping.pc = "readTotal"
    /\ ping' = [ping EXCEPT !.pc = "readTime", !.total = backends[ping.i].TotalRequests]
    /\ UNCHANGED <<proxyVars, backends, backendMutex, conn, budget>>

GetStatsReadTime ==
    /\ ping.pc = "readTime"
    /\ ping' = [ping EXCEPT !.pc = "runlock", !.time = backends[ping.i].LastRequestTime]
    /\ UNCHANGED <<proxyVars, backends, backendMutex, conn, budget>>

\* GetStats: the deferred b.mutex.RUnlock(); GetStats has returned
GetStatsRUnlock ==
    /\ ping.pc = "runlock"
    /\ backendMutex' = [backendMutex EXCEPT ![ping.i].r = @ \ {"ping"}]
    /\ ping' = [ping EXCEPT !.pc = "returned"]
    /\ UNCHANGED <<proxyVars, backends, conn, budget>>

\* pingHandler: totalRequests += total, and the next backend; after the last one
\* loadBalancer.mutex.RUnlock() and pingTemplate.ExecuteTemplate(res, "", data)
PingSum ==
    /\ ping.pc = "returned"
    /\ ping' = [ping EXCEPT !.totalRequests = @ + ping.total,
                            !.i = IF ping.i < Len(backends) THEN @ + 1 ELSE 1,
                            !.pc = IF ping.i < Len(backends) THEN "rlock" ELSE "rowActive"]
    /\ UNCHANGED <<proxyVars, backends, backendMutex, conn, budget>>

\* pingTemplate, in {{range .Backends}}: {{.ActiveRequests}}, {{.TotalRequests}} and
\* {{if .Healthy}} read the fields of the *Backend, with no call of a method
TemplateActive ==
    /\ ping.pc = "rowActive"
    /\ ping' = [ping EXCEPT !.pc = "rowTotal", !.row[1] = backends[ping.i].ActiveRequests]
    /\ UNCHANGED <<proxyVars, backends, backendMutex, conn, budget>>

TemplateTotal ==
    /\ ping.pc = "rowTotal"
    /\ ping' = [ping EXCEPT !.pc = "rowHealthy", !.row[2] = backends[ping.i].TotalRequests]
    /\ UNCHANGED <<proxyVars, backends, backendMutex, conn, budget>>

TemplateHealthy ==
    /\ ping.pc = "rowHealthy"
    /\ ping' = [ping EXCEPT !.pc = "rowEnd", !.row[3] = backends[ping.i].Healthy]
    /\ UNCHANGED <<proxyVars, backends, backendMutex, conn, budget>>

\* pingTemplate: {{end}} of the range body; after the last backend the handler returns
TemplateEnd ==
    /\ ping.pc = "rowEnd"
    /\ ping' = IF ping.i < Len(backends) THEN [ping EXCEPT !.pc = "rowActive", !.i = @ + 1]
               ELSE NoPing
    /\ UNCHANGED <<proxyVars, backends, backendMutex, conn, budget>>

\* main: strategy := getConfiguredStrategy(); loadBalancer = NewLoadBalancer(strategy)
MainNewLoadBalancer ==
    /\ main.pc = "start"
    /\ strategy' = getConfiguredStrategy(main.strategyFlag, main.envStrategy)
    /\ main' = [main EXCEPT !.pc = "discover"]
    /\ UNCHANGED <<backendMutex, conn, ping, simpleProxy, backends, roundRobinIndex, weightedIndex, lbMutex, serving, pc, localVars,
                   available, callObs, selLog, served, firstServed, lastOp, budget>>

\* main: discoveredBackends := discoverBackends(), whatever the lookup gives
MainDiscover ==
    /\ main.pc = "discover"
    /\ \E err \in BOOLEAN, n \in 0..MaxIPs : \E ips \in [1..n -> IPs] :
          main' = [main EXCEPT !.pc = "register", !.err = err, !.ips = ips,
                               !.discoveredBackends = discoverBackends(err, ips)]
    /\ UNCHANGED <<backendMutex, conn, ping, simpleProxy, backends, strategy, roundRobinIndex, weightedIndex, lbMutex, serving, pc,
                   localVars, available, callObs, selLog, served, firstServed, lastOp, budget>>

\* main: for _, backend := range discoveredBackends { loadBalancer.AddBackend(backend, 1) }
MainRegister ==
    /\ main.pc = "register"
    /\ Len(backends) < Len(main.discoveredBackends)
    /\ AddBackend(main.discoveredBackends[Len(backends) + 1], 1)

\* main: server.ListenAndServe(), once the loop is over
MainListen ==
    /\ main.pc = "register"
    /\ Len(backends) = Len(main.discoveredBackends)
    /\ ~serving
    /\ serving' = TRUE
    /\ lastOp' = NoOp
    /\ UNCHANGED <<main, backendMutex, conn, ping, simpleProxy, backends, strategy, roundRobinIndex, weightedIndex, lbMutex, pc,
                   localVars, available, callObs, selLog, served, firstServed, budget>>

\* The fields and locals other than the strategy and main's own.
InitWith(T, requests, srv, bs, cursor) ==
    /\ backends = bs
    /\ backendMutex = [b \in DOMAIN bs |-> Unlocked]
    /\ conn = [g \in Threads |-> NoConn]
    /\ ping = NoPing
    /\ roundRobinIndex = cursor
    /\ weightedIndex = 0
    /\ lbMutex = 0
    /\ serving = srv
    /\ pc = [t \in T |-> "idle"]
    /\ request = [t \in T |-> NoRequest]
    /\ clientIP = [t \in T |-> <<>>]
    /\ healthyBackends = [t \in T |-> <<>>]
    /\ idx = [t \in T |-> 0]
    /\ selected = [t \in T |-> 0]
    /\ minConnections = [t \in T |-> 0]
    /\ backend = [t \in T |-> 0]
    /\ status = [t \in T |-> 0]
    /\ available = [b \in DOMAIN bs |-> TRUE]
    /\ callObs = [t \in T |-> NoObs]
    /\ selLog = <<>>
    /\ served = NoServed
    /\ firstServed = [c \in Keys |-> 0]
    /\ lastOp = NoOp
    /\ budget = requests

\* The same before any backend is registered and any selection is made.
InitRest(T, requests, srv) == InitWith(T, requests, srv, <<>>, 0)

\* A load balancer NewLoadBalancer has made, with any strategy.
InitFor(T, requests, srv) ==
    /\ simpleProxy = NoSimple
    /\ main = NoMain
    /\ strategy \in Strategies
    /\ InitRest(T, requests, srv)

\* main: server.ListenAndServe(), after every address discoverBackends returned (at
\* least one) has been registered.
ListenAndServe ==
    /\ ~serving
    /\ Len(backends) >= 1
    /\ serving' = TRUE
    /\ lastOp' = NoOp
    /\ UNCHANGED <<available, backends, strategy, main, backendMutex, conn, ping, simpleProxy, roundRobinIndex, weightedIndex, lbMutex, pc, localVars,
                   callObs, selLog, served, firstServed, budget>>

\* main: loadBalancer.AddBackend(backend, 1) for a discovered address
MainAddBackend(max) ==
    /\ ~serving
    /\ Len(backends) < max
    /\ AddBackend(DefaultURL, 1)

\* proxyHandler up to the return of GetBackend, but for the strategy's selector.
GetBackendStep(t) ==
    \/ \E r \in ProxiedRequests : HandlerEntry(t, r)
    \/ Lock(t)
    \/ ScanStep(t)
    \/ ReturnNil(t)

\* proxyHandler after GetBackend has returned.
ForwardStep(t) ==
    \/ NoBackendAvailable(t)
    \/ HandlerReturn(t)
    \/ TrackConnection(t)
    \/ ForwardOK(t)
    \/ ForwardError(t)
    \/ DeferredDecrement(t)

\* One step of a request goroutine, under any strategy.
Step(t) ==
    \/ GetBackendStep(t)
    \/ RoundRobinSelect(t)
    \/ RoundRobinAdvance(t)
    \/ RandomSelect(t)
    \/ WeightedRoundRobinSelect(t)
    \/ WeightedRoundRobinWalk(t)
    \/ IPHashSelect(t)
    \/ LeastConnectionsBegin(t)
    \/ LeastConnectionsScan(t)
    \/ LeastConnectionsReturn(t)
    \/ ForwardStep(t)

\* The running server under any strategy: main registers every discovered backend
\* with weight 1, and NumThreads request goroutines run proxyHandler concurrently.
Init == InitFor(Threads, MaxRequests, FALSE)

Next ==
    \/ MainAddBackend(MaxBackends)
    \/ ListenAndServe
    \/ \E t \in Threads : Step(t)

Spec == Init /\ [][Next]_vars

\* The load balancer under RoundRobin, driven by one goroutine that registers backends
\* and handles requests one after the other.
InitRR == InitFor({1}, SeqRequests, TRUE) /\ strategy = RoundRobin

NextRR ==
    \/ Len(backends) < SeqBackends /\ pc[1] = "idle" /\ AddBackend(DefaultURL, 1)
    \/ GetBackendStep(1)
    \/ RoundRobinSelect(1)
    \/ RoundRobinAdvance(1)
    \/ ForwardStep(1)

SpecRR == InitRR /\ [][NextRR]_vars

\* The same under WeightedRoundRobin, with backends registered with any weight, as
\* the unit tests register them.
InitWRR == InitFor({1}, SeqRequests, TRUE) /\ strategy = WeightedRoundRobin

NextWRR ==
    \/ Len(backends) < SeqBackends /\ pc[1] = "idle" /\ \E w \in Weights : AddBackend(DefaultURL, w)
    \/ GetBackendStep(1)
    \/ WeightedRoundRobinSelect(1)
    \/ WeightedRoundRobinWalk(1)
    \/ RoundRobinAdvance(1)
    \/ ForwardStep(1)

SpecWRR == InitWRR /\ [][NextWRR]_vars

\* The same under IPHash.
InitIPHash == InitFor({1}, SeqRequests, TRUE) /\ strategy = IPHash

NextIPHash ==
    \/ Len(backends) < SeqBackends /\ pc[1] = "idle" /\ AddBackend(DefaultURL, 1)
    \/ GetBackendStep(1)
    \/ IPHashSelect(1)
    \/ ForwardStep(1)

SpecIPHash == InitIPHash /\ [][NextIPHash]_vars

\* The server under LeastConnections handling one request at a time, while the
\* Backend methods are also called directly (they are exported, and the unit tests
\* call them): the calls other requests make concurrently.
InitLC == InitFor({1}, LCRequests, FALSE) /\ strategy = LeastConnections

NextLC ==
    \/ MainAddBackend(MaxBackends)
    \/ ListenAndServe
    \/ \E b \in DOMAIN backends : serving /\ CallIncrement(b)
    \/ \E b \in DOMAIN backends : serving /\ CallDecrement(b)
    \/ GetBackendStep(1)
    \/ LeastConnectionsBegin(1)
    \/ LeastConnectionsScan(1)
    \/ LeastConnectionsReturn(1)
    \/ ForwardStep(1)

SpecLC == InitLC /\ [][NextLC]_vars

\* The server under the two cursor strategies, with NumThreads request goroutines
\* calling GetBackend concurrently; under WeightedRoundRobin the backends are
\* registered with any positive weight.
InitCursor ==
    InitFor(Threads, CursorRequests, FALSE) /\ strategy \in {RoundRobin, WeightedRoundRobin}

NextCursor ==
    \/ /\ ~serving
       /\ Len(backends) < MaxBackends
       /\ \E w \in (IF strategy = WeightedRoundRobin THEN 1..MaxWeight ELSE {1}) :
            AddBackend(DefaultURL, w)
    \/ ListenAndServe
    \/ \E t \in Threads :
        \/ GetBackendStep(t)
        \/ RoundRobinSelect(t)
        \/ RoundRobinAdvance(t)
        \/ WeightedRoundRobinSelect(t)
        \/ WeightedRoundRobinWalk(t)
        \/ ForwardStep(t)

SpecCursor == InitCursor /\ [][NextCursor]_vars

\* proxyHandler run by NumThreads goroutines over backends registered with any URL,
\* including one url.Parse rejects (AddBackend takes any string).  The strategy is
\* Random: it can return any member of the healthy subset, as can no other strategy.
InitProxy == InitFor(Threads, MaxRequests, FALSE) /\ strategy = Random

NextProxy ==
    \/ /\ ~serving
       /\ Len(backends) < MaxBackends
       /\ \E url \in URLs : AddBackend(url, 1)
    \/ ListenAndServe
    \/ \E t \in Threads :
        \/ GetBackendStep(t)
        \/ RandomSelect(t)
        \/ ForwardStep(t)
        \/ InvalidBackendURL(t)

SpecProxy == InitProxy /\ [][NextProxy]_vars

\* The server with one request goroutine while the servers behind the backends stop
\* and start.  The goroutine is scheduled whenever it has a step to take.
InitRecovery == InitFor({1}, MaxRequests, FALSE)

NextRecovery ==
    \/ MainAddBackend(MaxBackends)
    \/ ListenAndServe
    \/ Step(1)
    \/ \E b \in DOMAIN backends : BackendDown(b)
    \/ \E b \in DOMAIN backends : BackendUp(b)

SpecRecovery ==
    InitRecovery /\ [][NextRecovery]_vars /\ WF_vars(Step(1)) /\ WF_vars(NextRecovery)

\* The server under IPHash handling one request at a time, the requests reaching it
\* directly or through proxies: with and without X-Forwarded-For and X-Real-IP.
InitClientIP == InitFor({1}, ClientRequests, FALSE) /\ strategy = IPHash

NextClientIP ==
    \/ MainAddBackend(SeqBackends)
    \/ ListenAndServe
    \/ \E r \in Requests : HandlerEntry(1, r)
    \/ Lock(1)
    \/ ScanStep(1)
    \/ ReturnNil(1)
    \/ IPHashSelect(1)
    \/ ForwardStep(1)

SpecClientIP == InitClientIP /\ [][NextClientIP]_vars

\* The load balancer as the unit tests use it, under the two cursor strategies:
\* backends are registered under any of two URLs and with any weight, between the
\* requests one goroutine handles.
InitRegistry ==
    InitFor({1}, CursorRequests, TRUE) /\ strategy \in {RoundRobin, WeightedRoundRobin}

NextRegistry ==
    \/ /\ Len(backends) < MaxBackends
       /\ pc[1] = "idle"
       /\ \E url \in {DefaultURL, SprintfURL["10.0.0.2"]}, w \in Weights : AddBackend(url, w)
    \/ GetBackendStep(1)
    \/ RoundRobinSelect(1)
    \/ RoundRobinAdvance(1)
    \/ WeightedRoundRobinSelect(1)
    \/ WeightedRoundRobinWalk(1)
    \/ ForwardStep(1)

SpecRegistry == InitRegistry /\ [][NextRegistry]_vars

\* The running server seen at the Backend's fields: goroutines run the Backend methods
\* and the error handler's write statement by statement, while /ping is served.
InitStats == InitFor({1}, StatsRequests, FALSE) /\ strategy = RoundRobin

ConnStep(g) ==
    \/ \E b \in DOMAIN backends :
          \E op \in {"IncrementConnections", "DecrementConnections", "ErrorHandler"} :
             ConnCall(g, b, op)
    \/ ConnLock(g)
    \/ IncrementActive(g)
    \/ IncrementTotal(g)
    \/ IncrementTime(g)
    \/ DecrementActive(g)
    \/ ClearHealthy(g)
    \/ ConnUnlock(g)

PingStep ==
    \/ PingEntry
    \/ GetStatsRLock
    \/ GetStatsReadActive
    \/ GetStatsReadTotal
    \/ GetStatsReadTime
    \/ GetStatsRUnlock
    \/ PingSum
    \/ TemplateActive
    \/ TemplateTotal
    \/ TemplateHealthy
    \/ TemplateEnd

NextStats ==
    \/ MainAddBackend(MaxBackends)
    \/ ListenAndServe
    \/ \E g \in Writers : ConnStep(g)
    \/ PingStep

SpecStats == InitStats /\ [][NextStats]_vars

\* The program from the start of main: the strategy is read from the flag and the
\* environment, the backends are discovered and registered, and the server handles
\* requests one at a time.
InitStartup ==
    /\ main \in [pc : {"start"}, strategyFlag : FlagStrings, envStrategy : ConfigStrings,
                  err : {FALSE}, ips : {<<>>}, discoveredBackends : {<<>>}]
    /\ strategy = NoStrategy
    /\ simpleProxy = NoSimple
    /\ InitRest({1}, StartupRequests, FALSE)

NextStartup ==
    \/ MainNewLoadBalancer
    \/ MainDiscover
    \/ MainRegister
    \/ MainListen
    \/ Step(1)

SpecStartup == InitStartup /\ [][NextStartup]_vars

\* The server under WeightedRoundRobin with the backends of the README's example
\* registered before it serves, handling one request at a time.
InitDocWeights == InitFor({1}, SeqRequests, FALSE) /\ strategy = WeightedRoundRobin

NextDocWeights ==
    \/ ~serving /\ Len(backends) < Len(DocWeights)
                /\ AddBackend(DefaultURL, DocWeights[Len(backends) + 1])
    \/ ListenAndServe
    \/ GetBackendStep(1)
    \/ WeightedRoundRobinSelect(1)
    \/ WeightedRoundRobinWalk(1)
    \/ ForwardStep(1)

SpecDocWeights == InitDocWeights /\ [][NextDocWeights]_vars

\* The simple proxy: main stores what discoverBackends returned in backends, then
\* NumThreads request goroutines (net/http runs each request in its own) run
\* proxyHandler concurrently.
InitSimple ==
    /\ main = NoMain
    /\ strategy = NoStrategy
    /\ InitRest({1}, 0, FALSE)
    /\ \E err \in BOOLEAN, n \in 0..MaxIPs :
          \E ips \in [1..n -> IPs] :
              simpleProxy = [NoSimple EXCEPT !.backends = discoverBackends(err, ips)]

NextSimple ==
    \E g \in Threads :
        \/ SimpleTake(g)
        \/ SimpleLoad(g)
        \/ SimpleStore(g)
        \/ SimpleServe(g)

SpecSimple == InitSimple /\ [][NextSimple]_vars

\* The server under RoundRobin after MaxInt - 1 requests, all answered, over K
\* backends registered at startup: backend i has served the requests whose number
\* is i - 1 modulo K.
ServedSoFar(K, cursor) ==
    [i \in 1..K |-> [NewBackend(DefaultURL, 1) EXCEPT
                        !.TotalRequests = ((cursor - i) \div K) + 1, !.LastRequestTime = Now]]

InitOverflow ==
    /\ simpleProxy = NoSimple
    /\ main = NoMain
    /\ strategy = RoundRobin
    /\ \E K \in 2..SeqBackends :
          InitWith({1}, OverflowRequests, TRUE, ServedSoFar(K, MaxInt - 1), MaxInt - 1)

NextOverflow ==
    \/ GetBackendStep(1)
    \/ RoundRobinSelect(1)
    \/ RoundRobinAdvance(1)
    \/ RoundRobinPanic(1)
    \/ ForwardStep(1)

SpecOverflow == InitOverflow /\ [][NextOverflow]_vars

\* Every locking operation together: a request goroutine runs proxyHandler under
\* RoundRobin, another goroutine runs the Backend methods statement by statement, a
\* third runs pingHandler, and AddBackend is called at any time.  A goroutine that
\* has started an operation is scheduled again and again, and a goroutine waiting
\* for a mutex gets it if it is free again and again (sync.Mutex and sync.RWMutex
\* hand the lock to waiters); when an operation starts is left open.
InitLocks == InitFor({1}, LockRequests, TRUE) /\ strategy = RoundRobin

RequestProgress(t) ==
    \/ Lock(t)
    \/ ScanStep(t)
    \/ ReturnNil(t)
    \/ RoundRobinSelect(t)
    \/ RoundRobinAdvance(t)
    \/ ForwardStep(t)

ConnProgress(g) ==
    \/ ConnLock(g)
    \/ IncrementActive(g)
    \/ IncrementTotal(g)
    \/ IncrementTime(g)
    \/ DecrementActive(g)
    \/ ClearHealthy(g)
    \/ ConnUnlock(g)

PingProgress ==
    \/ GetStatsRLock
    \/ GetStatsReadActive
    \/ GetStatsReadTotal
    \/ GetStatsReadTime
    \/ GetStatsRUnlock
    \/ PingSum
    \/ TemplateActive
    \/ TemplateTotal
    \/ TemplateHealthy
    \/ TemplateEnd

NextLocks ==
    \/ Len(backends) < LockBackends /\ AddBackend(DefaultURL, 1)
    \/ HandlerEntry(1, NoRequest)
    \/ RequestProgress(1)
    \/ \E g \in Writers :
          \/ \E b \in DOMAIN backends :
                \E op \in {"IncrementConnections", "DecrementConnections", "ErrorHandler"} :
                   ConnCall(g, b, op)
          \/ ConnProgress(g)
    \/ PingEntry
    \/ PingProgress

SpecLocks ==
    /\ InitLocks /\ [][NextLocks]_vars
    /\ SF_vars(RequestProgress(1))
    /\ \A g \in Writers : SF_vars(ConnProgress(g))
    /\ SF_vars(PingProgress)

-----------------------------------------------------------------------------
\* ------------------------------------------------------------- claims

\* The position of backend b in the sequence hb (0 when absent).
Pos(hb, b) == IF b \in Range(hb) THEN CHOOSE i \in DOMAIN hb : hb[i] = b ELSE 0

Returned(t) == pc[t] = "afterGet"

\* C1: under RoundRobin, N sequential GetBackend calls over K >= 1 unchanged healthy
\* backends return only healthy backends, each floor(N/K) or ceil(N/K) times; each
\* call returns the successor, in registration order (cyclically), of the backend the
\* call before returned, so any K consecutive calls return each healthy backend once.
C1_RoundRobinFair ==
    LET H == HealthySubset
        K == Len(H)
        N == Len(selLog)
    IN  (strategy = RoundRobin /\ K >= 1) =>
            /\ \A i \in 1..N : selLog[i] \in Range(H)
            /\ \A b \in Range(H) : Count(selLog, b) \in {N \div K, (N + K - 1) \div K}
            /\ \A i \in 1..(N - 1) : Pos(H, selLog[i + 1]) = (Pos(H, selLog[i]) % K) + 1
            /\ \A s \in 1..(N - K + 1) : {selLog[i] : i \in s..(s + K - 1)} = Range(H)

\* C1 witness: two healthy backends beside an unhealthy one, five calls since the
\* subset changed (not a multiple of two), the cursor having started above zero.
C1_Witness ==
    /\ strategy = RoundRobin
    /\ Len(backends) = 3
    /\ Len(HealthySubset) = 2
    /\ Len(selLog) = 5
    /\ roundRobinIndex > Len(selLog)

\* C2: under WeightedRoundRobin with healthy backends of positive weights, every
\* window of totalWeight consecutive calls returns backend i exactly Weight(i) times.
C2_WeightedWindow ==
    LET H == HealthySubset
        W == TotalWeight(H, 1)
        N == Len(selLog)
    IN  (/\ strategy = WeightedRoundRobin
         /\ Len(H) >= 1
         /\ \A b \in Range(H) : backends[b].Weight > 0) =>
            \A s \in 1..(N - W + 1) :
                \A b \in Range(H) :
                    Count(SubSeq(selLog, s, s + W - 1), b) = backends[b].Weight

\* C2 witness: healthy backends of weights 1 and 2 beside an unhealthy one (the
\* cursor was left by calls over the larger subset), more calls than one window.
C2_Witness ==
    /\ strategy = WeightedRoundRobin
    /\ Len(backends) = 3
    /\ Len(HealthySubset) = 2
    /\ {backends[b].Weight : b \in Range(HealthySubset)} = {1, 2}
    /\ Len(selLog) > 4

\* The first healthy backend, in registration order, among those with the fewest
\* ActiveRequests.
LeastLoaded ==
    CHOOSE b \in Range(HealthySubset) :
        \A h \in Range(HealthySubset) :
            /\ backends[h].ActiveRequests >= backends[b].ActiveRequests
            /\ backends[h].ActiveRequests = backends[b].ActiveRequests => h >= b

\* C3: under LeastConnections, a GetBackend call during which no counter changed
\* returns the first healthy backend among those with the fewest ActiveRequests.
C3_LeastConnectionsSequential ==
    \A t \in DOMAIN pc :
        (/\ strategy = LeastConnections
         /\ Returned(t)
         /\ ~callObs[t].changed
         /\ Len(HealthySubset) >= 1) => backend[t] = LeastLoaded

\* C3 witness: the call returned a healthy backend although an unhealthy one has
\* fewer ActiveRequests.
C3_Witness ==
    \E t \in DOMAIN pc :
        /\ strategy = LeastConnections
        /\ Returned(t)
        /\ ~callObs[t].changed
        /\ backend[t] # 0
        /\ \E u \in DOMAIN backends :
            /\ ~backends[u].Healthy
            /\ backends[u].ActiveRequests < backends[backend[t]].ActiveRequests

\* C4 as claimed: under LeastConnections, with concurrent IncrementConnections and
\* DecrementConnections, there is an instant during the call at which no healthy
\* backend has fewer ActiveRequests than the backend returned.
C4_MinimumAtSomeInstant ==
    \A t \in DOMAIN pc :
        (strategy = LeastConnections /\ Returned(t) /\ backend[t] # 0) =>
            backend[t] \in callObs[t].minSeen

\* C4 amended: the backend returned is the first, in the healthy subset the call
\* computed, among those for which the call read the smallest ActiveRequests, each
\* value read at its own instant of the call.
C4_MinimumOfValuesRead ==
    \A t \in DOMAIN pc :
        (strategy = LeastConnections /\ Returned(t) /\ backend[t] # 0) =>
            LET hb == healthyBackends[t]
                read == callObs[t].observed
                i == Pos(hb, backend[t])
            IN  /\ Len(read) = Len(hb)
                /\ i # 0
                /\ \A j \in DOMAIN hb : read[j] >= read[i] /\ (read[j] = read[i] => j >= i)

\* C4 witness: counters changed during the call and the backend returned was at no
\* instant of the call a least-loaded one.
C4_Witness ==
    \E t \in DOMAIN pc :
        /\ strategy = LeastConnections
        /\ Returned(t)
        /\ backend[t] # 0
        /\ callObs[t].changed
        /\ backend[t] \notin callObs[t].minSeen

\* C5: under IPHash, all the calls made for one client identity while the healthy
\* subset is unchanged return the same backend, whatever calls for other identities
\* come between them.
C5_IPHashAffinity ==
    strategy = IPHash =>
        \A c \in Clients : \A i, j \in DOMAIN served[c] : served[c][i] = served[c][j]

\* C5 witness: two clients served twice each, alternately, by different backends.
C5_Witness ==
    /\ strategy = IPHash
    /\ Len(served[ClientA]) >= 2
    /\ Len(served[ClientB]) >= 2
    /\ served[ClientA][1] # served[ClientB][1]

\* C6: a GetBackend call that starts when every registered backend is unhealthy, and
\* with no backend registered since, returns nil, under every strategy.
C6_AllUnhealthyReturnsNil ==
    \A t \in DOMAIN pc :
        (/\ Returned(t)
         /\ Len(callObs[t].startHealth) = Len(backends)
         /\ \A i \in DOMAIN callObs[t].startHealth : ~callObs[t].startHealth[i]) =>
            backend[t] = 0

\* C6 witness: a call that started with two backends, both unhealthy, has returned.
C6_Witness ==
    \E t \in DOMAIN pc :
        /\ Returned(t)
        /\ Len(backends) = 2
        /\ callObs[t].startHealth = <<FALSE, FALSE>>
        /\ backend[t] = 0

\* C7: a backend that is unhealthy when a GetBackend call starts is not returned by
\* it, and every backend returned is one the call itself observed healthy.
C7_ReturnsObservedHealthy ==
    \A t \in DOMAIN pc :
        (Returned(t) /\ backend[t] # 0) =>
            /\ backend[t] \in DOMAIN callObs[t].startHealth => callObs[t].startHealth[backend[t]]
            /\ backend[t] \in Range(healthyBackends[t])

\* C7 witness: the backend returned was marked unhealthy by another request while
\* the call ran.
C7_Witness ==
    \E t \in DOMAIN pc :
        /\ Returned(t)
        /\ backend[t] # 0
        /\ callObs[t].startHealth[backend[t]]
        /\ ~backends[backend[t]].Healthy

\* C8: GetBackend returns nil exactly when the healthy subset it computed is empty,
\* and otherwise a member of that subset.  The subset holds only backends that were
\* healthy when the call started and every backend that is healthy when it returns;
\* a goroutine inside GetBackend never waits.
C8_NilIffNoHealthyBackend ==
    \A t \in DOMAIN pc :
        /\ Returned(t) =>
            /\ backend[t] = 0 <=> healthyBackends[t] = <<>>
            /\ backend[t] # 0 => backend[t] \in Range(healthyBackends[t])
            /\ \A b \in Range(healthyBackends[t]) : callObs[t].startHealth[b]
            /\ \A b \in DOMAIN backends : backends[b].Healthy => b \in Range(healthyBackends[t])
        /\ lbMutex = t => ENABLED Step(t)

\* C8 witness: the call returned nil although a backend was healthy when it started.
C8_Witness ==
    \E t \in DOMAIN pc :
        /\ Returned(t)
        /\ backend[t] = 0
        /\ \E i \in DOMAIN callObs[t].startHealth : callObs[t].startHealth[i]

\* C9: ActiveRequests is never negative, and DecrementConnections on a counter that
\* is zero changes nothing of the backend.
C9_ActiveRequestsNonNegative ==
    /\ \A b \in DOMAIN backends : backends[b].ActiveRequests >= 0
    /\ (lastOp.op = "DecrementConnections" /\ lastOp.pre.ActiveRequests = 0) =>
            backends[lastOp.b] = lastOp.pre

\* C9 witness: DecrementConnections has just run on a backend whose counter was zero
\* after requests had been counted on it.
C9_Witness ==
    /\ lastOp.op = "DecrementConnections"
    /\ lastOp.pre.ActiveRequests = 0
    /\ lastOp.pre.TotalRequests >= 1

\* C10: a backend is healthy when added; its flag is cleared only by the error
\* handler of a request forwarded to it; once cleared it is never set again, and the
\* backend is returned by no GetBackend call that starts afterwards.
C10_HealthyOnlyCleared ==
    [][/\ \A b \in DOMAIN backends' : b \notin DOMAIN backends => backends'[b].Healthy
       /\ \A b \in DOMAIN backends : ~backends[b].Healthy => ~backends'[b].Healthy
       /\ \A b \in DOMAIN backends :
            (backends[b].Healthy /\ ~backends'[b].Healthy) =>
                \E t \in DOMAIN pc :
                    /\ pc[t] = "forward" /\ backend[t] = b
                    /\ pc'[t] = "deferred" /\ status'[t] = StatusBadGateway
       /\ \A t \in DOMAIN pc :
            (pc'[t] = "afterGet" /\ backend'[t] # 0) =>
                \A b \in DOMAIN callObs'[t].startHealth :
                    ~callObs'[t].startHealth[b] => backend'[t] # b]_vars

\* C10 witness: a call that started after a backend's flag was cleared has returned
\* another backend.
C10_Witness ==
    \E t \in DOMAIN pc :
        /\ Returned(t)
        /\ backend[t] # 0
        /\ \E b \in DOMAIN callObs[t].startHealth : ~callObs[t].startHealth[b]

\* C11: a backend that was marked unhealthy and whose server is running again is
\* eventually among the backends GetBackend can return (its Healthy flag is true
\* again), unless the server stops again first; no restart, no AddBackend.
C11_AutoRecovery ==
    \A b \in 1..MaxBackends :
        (b \in DOMAIN backends /\ ~backends[b].Healthy /\ available[b])
            ~> (b \in DOMAIN backends /\ (backends[b].Healthy \/ ~available[b]))

\* The log holds only members of H, each floor(N/K) or ceil(N/K) times, each entry the
\* cyclic successor in H of the entry before it.
FairCycle(log, H) ==
    LET K == Len(H)
        N == Len(log)
    IN  /\ \A i \in 1..N : log[i] \in Range(H)
        /\ \A b \in Range(H) : Count(log, b) \in {N \div K, (N + K - 1) \div K}
        /\ \A i \in 1..(N - 1) : Pos(H, log[i + 1]) = (Pos(H, log[i]) % K) + 1

\* Every window of totalWeight consecutive entries of the log holds each member of H
\* as many times as its weight.
WeightedCycle(log, H) ==
    LET W == TotalWeight(H, 1)
    IN  \A s \in 1..(Len(log) - W + 1) :
            \A b \in Range(H) : Count(SubSeq(log, s, s + W - 1), b) = backends[b].Weight

\* C12: with requests calling GetBackend concurrently under RoundRobin or
\* WeightedRoundRobin, each call advances the cursor by exactly one, returns the
\* backend the cursor stood at when it advanced, and nothing else moves the cursor;
\* the backends returned while the healthy subset is unchanged are, in the order of
\* the calls, those of sequential calls (each floor(N/K) or ceil(N/K) times under
\* RoundRobin, each its weight per window under WeightedRoundRobin).
C12_CursorAtomic ==
    /\ [](/\ (strategy = RoundRobin /\ Len(HealthySubset) >= 1) =>
                FairCycle(selLog, HealthySubset)
          /\ (strategy = WeightedRoundRobin /\ Len(HealthySubset) >= 1) =>
                WeightedCycle(selLog, HealthySubset))
    /\ [][/\ \A t \in DOMAIN pc :
                (pc[t] = "rrAdvance" /\ pc'[t] = "afterGet") =>
                    /\ roundRobinIndex' = roundRobinIndex + 1
                    /\ backend'[t] = healthyBackends[t][(roundRobinIndex % Len(healthyBackends[t])) + 1]
          /\ roundRobinIndex' # roundRobinIndex =>
                \E t \in DOMAIN pc : pc[t] = "rrAdvance" /\ pc'[t] = "afterGet"
          /\ weightedIndex' # weightedIndex =>
                \E t \in DOMAIN pc : pc[t] = "scan" /\ pc'[t] = "wrrWalk" /\ lbMutex = t]_vars

\* C12 witness: three calls have returned since the healthy subset last changed, and
\* two goroutines have both just returned from GetBackend.
C12_Witness ==
    /\ Len(selLog) = 3
    /\ Len(HealthySubset) = 2
    /\ \E t, u \in DOMAIN pc : t # u /\ Returned(t) /\ Returned(u)

\* The sum of TotalRequests over the backends from position i on.
RECURSIVE SumTotalRequests(_)
SumTotalRequests(i) ==
    IF i > Len(backends) THEN 0 ELSE backends[i].TotalRequests + SumTotalRequests(i + 1)

\* C13: IncrementConnections adds one to ActiveRequests and to TotalRequests and sets
\* LastRequestTime, in one step; DecrementConnections leaves TotalRequests and
\* LastRequestTime as they were; neither touches another backend.  TotalRequests
\* never decreases, changes only by an IncrementConnections on that backend, and over
\* all backends counts the IncrementConnections calls completed.
C13_TotalRequestsCounts ==
    /\ [](/\ lastOp.op = "IncrementConnections" =>
                backends[lastOp.b] = [lastOp.pre EXCEPT !.ActiveRequests = @ + 1,
                                                        !.TotalRequests = @ + 1,
                                                        !.LastRequestTime = Now]
          /\ lastOp.op = "DecrementConnections" =>
                /\ backends[lastOp.b].TotalRequests = lastOp.pre.TotalRequests
                /\ backends[lastOp.b].LastRequestTime = lastOp.pre.LastRequestTime
          /\ SumTotalRequests(1) = LCRequests - budget)
    /\ [][\A b \in DOMAIN backends :
            /\ backends'[b].TotalRequests >= backends[b].TotalRequests
            /\ backends'[b].TotalRequests # backends[b].TotalRequests =>
                /\ lastOp'.op = "IncrementConnections" /\ lastOp'.b = b
                /\ backends'[b].TotalRequests = backends[b].TotalRequests + 1
            /\ (lastOp'.op \in {"IncrementConnections", "DecrementConnections"} /\ lastOp'.b # b) =>
                backends'[b] = backends[b]]_vars

\* C13 witness: DecrementConnections has just run on a backend that had counted two
\* requests, both still active, while the other backend has counted one.
C13_Witness ==
    /\ lastOp.op = "DecrementConnections"
    /\ lastOp.pre.TotalRequests = 2
    /\ lastOp.pre.ActiveRequests = 2
    /\ \E b \in DOMAIN backends : b # lastOp.b /\ backends[b].TotalRequests = 1

\* The requests between their IncrementConnections and their DecrementConnections on
\* backend b.
InFlight(b) == {t \in DOMAIN pc : pc[t] \in {"forward", "deferred"} /\ backend[t] = b}

\* C14: a request that obtained a backend calls IncrementConnections on it once, before
\* forwarding, and DecrementConnections on it once, when the handler finishes, whether
\* the forward succeeded, met a transport error, or the backend's URL did not parse.
\* So ActiveRequests of each backend is the number of requests between the two calls
\* on it, and is 0 when no request is in flight.
C14_IncrementDecrementBracket ==
    /\ [](\A b \in DOMAIN backends : backends[b].ActiveRequests = Cardinality(InFlight(b)))
    /\ [][\A t \in DOMAIN pc :
            /\ (pc[t] = "afterGet" /\ backend[t] # 0 /\ pc'[t] # "afterGet") =>
                /\ pc'[t] = "forward" /\ backend'[t] = backend[t]
                /\ backends'[backend[t]].ActiveRequests = backends[backend[t]].ActiveRequests + 1
            /\ (pc[t] = "forward" /\ pc'[t] # "forward") =>
                /\ pc'[t] = "deferred" /\ backend'[t] = backend[t]
                /\ status'[t] \in {StatusOK, StatusBadGateway, StatusInternalServerError}
                /\ status'[t] = StatusInternalServerError <=> ~URLParses(backends[backend[t]].URL)
                /\ backends'[backend[t]].ActiveRequests = backends[backend[t]].ActiveRequests
            /\ (pc[t] = "deferred" /\ pc'[t] # "deferred") =>
                /\ pc'[t] = "idle"
                /\ backends'[backend[t]].ActiveRequests = backends[backend[t]].ActiveRequests - 1]_vars

\* C14 witness: a request to a backend whose URL does not parse has been answered 500
\* and has not returned yet, while another request is being forwarded to the same
\* backend.
C14_Witness ==
    \E t, u \in DOMAIN pc :
        /\ t # u
        /\ pc[t] = "deferred" /\ status[t] = StatusInternalServerError
        /\ pc[u] = "forward" /\ backend[u] = backend[t]
        /\ backends[backend[t]].ActiveRequests = 2

\* C15: when GetBackend returns nil the handler answers 503 and returns; it does not
\* call GetBackend again, and its steps change no backend.
C15_NilAnswered503 ==
    /\ [](\A t \in DOMAIN pc : pc[t] = "return" => (status[t] = StatusServiceUnavailable /\ backend[t] = 0))
    /\ [][\A t \in DOMAIN pc :
            /\ (pc[t] = "afterGet" /\ backend[t] = 0 /\ pc'[t] # "afterGet") =>
                /\ pc'[t] = "return"
                /\ status'[t] = StatusServiceUnavailable
                /\ backends' = backends
            /\ (pc[t] = "return" /\ pc'[t] # "return") =>
                /\ pc'[t] = "idle"
                /\ backends' = backends]_vars

\* C15 witness: a request has been answered 503 while another request, whose forward
\* failed, has not returned yet.
C15_Witness ==
    \E t, u \in DOMAIN pc :
        /\ pc[t] = "return" /\ status[t] = StatusServiceUnavailable
        /\ pc[u] = "deferred" /\ status[u] = StatusBadGateway

\* C16: a transport error on a request forwarded to backend B clears B's Healthy flag
\* (which changes nothing when it is already false) and changes nothing else of any
\* backend nor the list; the request is answered 502, and the handler returns
\* without selecting another backend.
C16_ErrorMarksOnlyThatBackend ==
    /\ [](\A t \in DOMAIN pc :
            (pc[t] = "deferred" /\ status[t] = StatusBadGateway) => ~backends[backend[t]].Healthy)
    /\ [][\A t \in DOMAIN pc :
            /\ (pc[t] = "forward" /\ status'[t] = StatusBadGateway) =>
                /\ backends' = [backends EXCEPT ![backend[t]].Healthy = FALSE]
                /\ ~backends[backend[t]].Healthy => backends' = backends
                /\ backend'[t] = backend[t]
                /\ pc'[t] = "deferred"
            /\ (pc[t] = "deferred" /\ pc'[t] # "deferred") => pc'[t] = "idle"]_vars

\* C16 witness: the error handler has just run for a backend that was already
\* unhealthy, while another backend is healthy.
C16_Witness ==
    /\ lastOp.op = "ErrorHandler"
    /\ ~lastOp.pre.Healthy
    /\ \E b \in DOMAIN backends : backends[b].Healthy

\* What the request's headers and peer address give by the order X-Forwarded-For,
\* X-Real-IP, RemoteAddr.
HeaderPriority(r) ==
    CASE r.XFF # <<>> -> r.XFF
      [] r.XFF = <<>> /\ r.XRI # <<>> -> r.XRI
      [] r.XFF = <<>> /\ r.XRI = <<>> -> r.RemoteAddr

\* C17: the client identity of a request is its X-Forwarded-For header when that is
\* not empty, else its X-Real-IP header when that is not empty, else its RemoteAddr;
\* and this string is the key GetBackend hashes: under IPHash the backend returned is
\* the one at position hash(identity) mod K of the call's K healthy backends.
C17_ClientIPPriority ==
    \A t \in DOMAIN pc :
        /\ pc[t] # "idle" => clientIP[t] = HeaderPriority(request[t])
        /\ (Returned(t) /\ strategy = IPHash /\ backend[t] # 0) =>
              LET hb == healthyBackends[t]
              IN  backend[t] = hb[HashMod(Sum32a(HeaderPriority(request[t])), Len(hb)) + 1]

\* C17 witness: a request with no X-Forwarded-For, an X-Real-IP and a RemoteAddr was
\* given a backend, one of two healthy ones.
C17_Witness ==
    \E t \in DOMAIN pc :
        /\ Returned(t) /\ backend[t] # 0
        /\ Len(healthyBackends[t]) = 2
        /\ request[t].XFF = <<>> /\ request[t].XRI = ClientA
        /\ clientIP[t] = ClientA

\* C18: the client identity is only the first address of a comma-separated
\* X-Forwarded-For header, and, when neither header is set, the host of RemoteAddr
\* without the port: two requests of one host from different source ports have the
\* same identity.
C18_FirstAddressHostOnly ==
    \A t \in DOMAIN pc :
        pc[t] # "idle" =>
            LET r == request[t]
            IN  /\ r.XFF # <<>> => clientIP[t] = FirstField(r.XFF, 44)
                /\ (r.XFF = <<>> /\ r.XRI = <<>>) => clientIP[t] = SplitHost(r.RemoteAddr)

\* C19: under IPHash every request of a client identity is sent to the backend that
\* identity's first request was sent to, for as long as the process runs (stated
\* here only for the identities whose first backend is still healthy).
C19_AlwaysFirstBackend ==
    \A t \in DOMAIN pc :
        (Returned(t) /\ strategy = IPHash /\ backend[t] # 0) =>
            LET first == firstServed[clientIP[t]]
            IN  backends[first].Healthy => backend[t] = first

\* The load balancer is the README's example: A, B and C registered with weights 1, 3
\* and 2, all healthy, under WeightedRoundRobin.  No backend can have been unhealthy
\* before (Healthy is never set back), so selLog holds every call since the start.
DocExample ==
    /\ strategy = WeightedRoundRobin
    /\ Len(backends) = Len(DocWeights)
    /\ \A b \in DOMAIN backends : backends[b].Weight = DocWeights[b] /\ backends[b].Healthy

\* The calls so far returned the backends of cycle, in its order, over and over.
FollowsCycle(cycle) ==
    \A i \in DOMAIN selLog : selLog[i] = cycle[((i - 1) % Len(cycle)) + 1]

Configured == IF main.strategyFlag # <<>> THEN main.strategyFlag ELSE main.envStrategy

\* s is the word w up to the case of its letters and white space around it.
Spells(s, w) ==
    \E i \in 0..Len(s) :
        /\ i + Len(w) <= Len(s)
        /\ \A k \in 1..i : s[k] \in {9, 10, 11, 12, 13, 32}
        /\ \A k \in (i + Len(w) + 1)..Len(s) : s[k] \in {9, 10, 11, 12, 13, 32}
        /\ \A k \in 1..Len(w) : s[i + k] = w[k] \/ (s[i + k] \in 65..90 /\ s[i + k] + 32 = w[k])

\* The strategy the configured string stands for when the words of rr, rnd, wrr, lc and
\* iph are the names of the five strategies, and every other string means RoundRobin.
StrategyNamed(s, rr, rnd, wrr, lc, iph) ==
    CASE \E w \in rr : Spells(s, w) -> RoundRobin
      [] \E w \in rnd : Spells(s, w) -> Random
      [] \E w \in wrr : Spells(s, w) -> WeightedRoundRobin
      [] \E w \in lc : Spells(s, w) -> LeastConnections
      [] \E w \in iph : Spells(s, w) -> IPHash
      [] OTHER -> RoundRobin

\* C21 as stated: the values roundrobin, random, weighted, leastconnections and iphash
\* (in any case, with white space around them) give RoundRobin, Random,
\* WeightedRoundRobin, LeastConnections and IPHash, and every other value gives
\* RoundRobin.
C21_FiveNames ==
    main.pc \in {"discover", "register"} =>
        strategy = StrategyNamed(Configured, {StrategyNames.roundrobin}, {StrategyNames.random}, {StrategyNames.weighted},
                                 {StrategyNames.leastconnections}, {StrategyNames.iphash})

\* C21, amended: the five values and their aliases (round-robin, rr; rand;
\* weightedroundrobin, weighted-round-robin, wrr; least-connections, lc; ip-hash,
\* hash), in any case and with white space around them, give the five strategies,
\* and every other value gives RoundRobin; the strategy of the load balancer never
\* changes after its construction.
C21_NamesAndAliases ==
    /\ [](main.pc \in {"discover", "register"} =>
            strategy = StrategyNamed(Configured,
                            {StrategyNames.roundrobin, StrategyNames.round_robin, StrategyNames.rr},
                            {StrategyNames.random, StrategyNames.rand},
                            {StrategyNames.weighted, StrategyNames.weightedroundrobin, StrategyNames.weighted_round_robin, StrategyNames.wrr},
                            {StrategyNames.leastconnections, StrategyNames.least_connections, StrategyNames.lc},
                            {StrategyNames.iphash, StrategyNames.ip_hash, StrategyNames.hash}))
    /\ [][main.pc # "start" => strategy' = strategy]_vars

\* C21 witness: the flag " LC" made a LeastConnections load balancer, which has
\* returned a backend to a request.
C21_Witness ==
    /\ main.pc = "register" /\ main.strategyFlag = <<32, 76, 67>>
    /\ strategy = LeastConnections
    /\ Returned(1) /\ backend[1] # 0

\* A step of main before the server listens.
MainStep == MainNewLoadBalancer \/ MainDiscover \/ MainRegister \/ MainListen

\* C22: discoverBackends returns a non-empty list in every outcome: the single default
\* address http://cats-api:8080 on a resolution error and on a lookup that gives no
\* address, else one address per resolved IP in resolution order.  So main always
\* has a next step until the server listens, and the listening server has at least
\* one backend: those discovered, in their order.
C22_DiscoveryNeverEmpty ==
    LET d == main.discoveredBackends
    IN  /\ main.pc = "register" =>
              /\ Len(d) >= 1
              /\ main.err => d = <<DefaultURL>>
              /\ (~main.err /\ main.ips = <<>>) => d = <<DefaultURL>>
              /\ (~main.err /\ main.ips # <<>>) =>
                    /\ Len(d) = Len(main.ips)
                    /\ \A i \in DOMAIN d : d[i] = SprintfURL[main.ips[i]]
        /\ (main.pc # "none" /\ ~serving) => ENABLED MainStep
        /\ (main.pc # "none" /\ serving) =>
              /\ Len(backends) >= 1
              /\ Len(backends) = Len(d)
              /\ \A b \in DOMAIN backends : backends[b].URL = d[b]

\* C22 witness: the lookup failed, and the server is handling a request with the
\* default address as its only backend.
C22_Witness ==
    /\ main.pc = "register" /\ main.err /\ serving
    /\ Len(backends) = 1 /\ backends[1].URL = DefaultURL
    /\ Returned(1) /\ backend[1] = 1

\* C23: AddBackend(url, weight) appends exactly one backend at the end of the list,
\* with the URL and weight given, Healthy, and with zero counters; it leaves every
\* existing entry, both cursors and the strategy as they were, also when the list
\* already has an entry with that URL.
C23_AddBackendAppendsOne ==
    [][lastOp'.op = "AddBackend" =>
          /\ Len(backends') = Len(backends) + 1
          /\ SubSeq(backends', 1, Len(backends)) = backends
          /\ backends'[Len(backends')] =
                [URL |-> lastOp'.pre.URL, Weight |-> lastOp'.pre.Weight, ActiveRequests |-> 0,
                 TotalRequests |-> 0, LastRequestTime |-> 0, Healthy |-> TRUE]
          /\ roundRobinIndex' = roundRobinIndex
          /\ weightedIndex' = weightedIndex
          /\ strategy' = strategy]_vars

\* C23 witness: a second backend was added under the URL of the first, which has
\* counted a request and is unhealthy, after a cursor had moved.
C23_Witness ==
    /\ lastOp.op = "AddBackend"
    /\ Len(backends) = 2
    /\ backends[2].URL = backends[1].URL
    /\ backends[1].TotalRequests = 1 /\ ~backends[1].Healthy
    /\ backends[2].TotalRequests = 0 /\ backends[2].Healthy
    /\ roundRobinIndex + weightedIndex > 0

\* C24: the backend list is append-only: whatever step is taken (AddBackend,
\* GetBackend, IncrementConnections, DecrementConnections, a proxy error), the list
\* does not get shorter, no entry leaves its position, and the URL and Weight of
\* every entry stay as they are; a backend marked unhealthy stays in the list.
C24_AppendOnly ==
    [][/\ Len(backends') >= Len(backends)
       /\ \A b \in DOMAIN backends :
             /\ backends'[b].URL = backends[b].URL
             /\ backends'[b].Weight = backends[b].Weight]_vars

\* C24 witness: a proxy error has just marked the first of two backends, registered
\* under different URLs and weights, unhealthy.
C24_Witness ==
    /\ lastOp.op = "ErrorHandler" /\ lastOp.b = 1
    /\ Len(backends) = 2
    /\ ~backends[1].Healthy /\ backends[2].Healthy
    /\ backends[1].URL # backends[2].URL
    /\ backends[1].Weight # backends[2].Weight

\* C25: GetStats returns a consistent snapshot while IncrementConnections and
\* DecrementConnections run on the same backend: the three values returned are those
\* the backend had at one instant at which no operation on it was under way (the
\* instant GetStats took the lock), so 0 <= active <= total, and lastRequestTime is
\* zero exactly when total is 0.
C25_ConsistentSnapshot ==
    ping.pc = "returned" =>
        /\ <<ping.active, ping.total, ping.time>> = ping.atLock
        /\ 0 <= ping.active /\ ping.active <= ping.total
        /\ (ping.time = 0) <=> (ping.total = 0)

\* C25 witness: GetStats has returned (1, 1, a time) for a backend on which a second
\* IncrementConnections has gone as far as ActiveRequests++ since GetStats let go
\* of the lock.
C25_Witness ==
    /\ ping.pc = "returned"
    /\ <<ping.active, ping.total>> = <<1, 1>> /\ ping.time # 0
    /\ \E g \in Writers :
          /\ conn[g] = [pc |-> "total", op |-> "IncrementConnections", b |-> ping.i]
          /\ backends[ping.i].ActiveRequests = 2

\* C26: every read of a backend's mutable fields made while the server handles
\* requests, those of the /ping and /health page included, is made holding that
\* backend's lock: in no state is a goroutine about to read a field without the
\* lock while another is about to write that field.
C26_NoReadRacesWrite ==
    \A g \in Writers :
        LET reads == CASE ping.pc \in {"readActive", "rowActive"} -> {"active", "check"}
                       [] ping.pc \in {"readTotal", "rowTotal"} -> {"total"}
                       [] ping.pc = "readTime" -> {"time"}
                       [] ping.pc = "rowHealthy" -> {"healthy"}
                       [] OTHER -> {}
        IN  (conn[g].b = ping.i /\ conn[g].pc \in reads) => "ping" \in backendMutex[ping.i].r

\* C27: under WeightedRoundRobin, when the weights of the call's healthy subset sum
\* to more than zero, the backend returned has a positive weight: a healthy backend
\* of weight zero is never returned.
C27_ZeroWeightNeverReturned ==
    \A t \in DOMAIN pc :
        (/\ strategy = WeightedRoundRobin
         /\ Returned(t) /\ backend[t] # 0
         /\ TotalWeight(healthyBackends[t], 1) > 0) =>
            backends[backend[t]].Weight > 0

\* C27 witness: a call whose healthy subset starts with a backend of weight zero
\* (the walk's fallback) and holds another zero weight behind a positive one.
C27_Witness ==
    /\ strategy = WeightedRoundRobin
    /\ Returned(1) /\ backend[1] # 0
    /\ Len(healthyBackends[1]) = 3
    /\ backends[healthyBackends[1][1]].Weight = 0
    /\ backends[healthyBackends[1][2]].Weight > 0
    /\ backends[healthyBackends[1][3]].Weight = 0
    /\ Len(selLog) >= 3

\* C28: under WeightedRoundRobin a call whose healthy subset has total weight zero
\* behaves as RoundRobin (returns the element at roundRobinIndex mod the subset's
\* length, advances roundRobinIndex by one, leaves weightedIndex), and a call whose
\* subset has a positive total weight advances weightedIndex and leaves
\* roundRobinIndex.
C28_ZeroSumIsRoundRobin ==
    [][(strategy = WeightedRoundRobin /\ pc'[1] # pc[1]) =>
        LET hb == healthyBackends[1]
            totalWeight == TotalWeight(hb, 1)
        IN  /\ (Scanned(1) /\ Len(hb) > 0 /\ totalWeight = 0) =>
                   /\ pc'[1] = "rrAdvance"
                   /\ UNCHANGED <<roundRobinIndex, weightedIndex>>
            /\ pc[1] = "rrAdvance" =>
                   /\ totalWeight = 0
                   /\ Returned(1)'
                   /\ backend'[1] = hb[(roundRobinIndex % Len(hb)) + 1]
                   /\ roundRobinIndex' = roundRobinIndex + 1
                   /\ UNCHANGED weightedIndex
            /\ (Scanned(1) /\ Len(hb) > 0 /\ totalWeight > 0) =>
                   /\ pc'[1] = "wrrWalk"
                   /\ weightedIndex' = (weightedIndex + 1) % totalWeight
                   /\ UNCHANGED roundRobinIndex
            /\ pc[1] = "wrrWalk" =>
                   /\ totalWeight > 0
                   /\ Returned(1)' /\ backend'[1] \in Range(hb)
                   /\ UNCHANGED <<roundRobinIndex, weightedIndex>>]_vars

\* C28 witness: a zero-sum call over two backends has returned the second of them,
\* after positive-sum calls had moved weightedIndex.
C28_Witness ==
    /\ strategy = WeightedRoundRobin
    /\ Returned(1)
    /\ Len(healthyBackends[1]) = 2
    /\ TotalWeight(healthyBackends[1], 1) = 0
    /\ backend[1] = healthyBackends[1][2]
    /\ roundRobinIndex = 2
    /\ weightedIndex > 0

\* RoundRobin GetBackend calls that have returned a backend: those that reached
\* IncrementConnections, and the one whose result the handler has just received.
RoundRobinReturns ==
    (SeqRequests - budget) + (IF Returned(1) /\ backend[1] # 0 THEN 1 ELSE 0)

\* C29: under RoundRobin every call over a non-empty healthy subset returns the
\* element at roundRobinIndex mod the subset's length and advances roundRobinIndex by
\* one, whatever the size of the subsets of earlier calls; a call over an empty
\* subset returns nil and leaves roundRobinIndex; roundRobinIndex is the number of
\* calls that returned a backend.
C29_CursorCountsSelections ==
    /\ [](strategy = RoundRobin => roundRobinIndex = RoundRobinReturns)
    /\ [][(strategy = RoundRobin /\ pc'[1] # pc[1] /\ Returned(1)') =>
            LET hb == healthyBackends[1]
            IN  IF Len(hb) > 0
                THEN /\ backend'[1] = hb[(roundRobinIndex % Len(hb)) + 1]
                     /\ roundRobinIndex' = roundRobinIndex + 1
                ELSE /\ backend'[1] = 0
                     /\ roundRobinIndex' = roundRobinIndex]_vars

\* C29 witness: the fourth selection, over two healthy backends out of three (the
\* earlier calls ran over other subsets, one of them empty or of another size),
\* returns the second of the two.
C29_Witness ==
    /\ strategy = RoundRobin
    /\ Returned(1)
    /\ Len(backends) = 3
    /\ Len(healthyBackends[1]) = 2
    /\ backend[1] = healthyBackends[1][2]
    /\ roundRobinIndex = 4
    /\ selLog = <<backend[1]>>

\* A step of goroutine t inside GetBackend.
GetBackendActs(t) == InCall(t) /\ <<pc[t], idx[t]>>' # <<pc[t], idx[t]>>

\* C30: GetBackend under Random, LeastConnections or IPHash leaves roundRobinIndex
\* and weightedIndex unchanged, and GetBackend under any strategy changes no
\* backend's ActiveRequests, TotalRequests, LastRequestTime or Healthy.
C30_SelectionReadsOnly ==
    [][\A t \in DOMAIN pc :
          GetBackendActs(t) =>
              /\ strategy \in {Random, LeastConnections, IPHash} =>
                     UNCHANGED <<roundRobinIndex, weightedIndex>>
              /\ Len(backends') = Len(backends)
              /\ \A b \in DOMAIN backends :
                     /\ backends'[b].ActiveRequests = backends[b].ActiveRequests
                     /\ backends'[b].TotalRequests = backends[b].TotalRequests
                     /\ backends'[b].LastRequestTime = backends[b].LastRequestTime
                     /\ backends'[b].Healthy = backends[b].Healthy]_vars

\* C30 witness: under a strategy without cursor a call has returned the second
\* backend, the first having been marked unhealthy by a request of the other
\* goroutine, whose request is still counted in ActiveRequests.
C30_Witness ==
    /\ strategy \in {Random, LeastConnections, IPHash}
    /\ Returned(1) /\ backend[1] = 2
    /\ backend[2] = 1 /\ pc[2] # "idle"
    /\ ~backends[1].Healthy
    /\ backends[1].TotalRequests = 1 /\ backends[1].ActiveRequests = 1
    /\ roundRobinIndex = 0 /\ weightedIndex = 0

\* C32: getHealthyBackends returns exactly the backends whose Healthy flag is true,
\* each once and in registration order, and changes neither the list nor a backend;
\* marking a backend unhealthy lowers by one the subset index of every healthy
\* backend registered after it and leaves the index of those registered before it.
C32_HealthySubsequence ==
    /\ [](Scanned(1) =>
            LET hb == healthyBackends[1]
            IN  /\ \A i \in 1..(Len(hb) - 1) : hb[i] < hb[i + 1]
                /\ Range(hb) = {b \in DOMAIN backends : backends[b].Healthy})
    /\ [][/\ (pc[1] = "scan" /\ idx'[1] # idx[1]) => backends' = backends
          /\ \A k \in DOMAIN backends :
                (backends[k].Healthy /\ ~backends'[k].Healthy) =>
                    \A b \in DOMAIN backends \ {k} :
                        backends[b].Healthy =>
                            Pos(HealthySubset, b)' =
                                Pos(HealthySubset, b) - (IF b > k THEN 1 ELSE 0)]_vars

\* C32 witness: of three backends the second was marked unhealthy, and the call's
\* subset is the first and the third, the third now at index 2.
C32_Witness ==
    /\ Scanned(1)
    /\ Len(backends) = 3
    /\ healthyBackends[1] = <<1, 3>>
    /\ backends[2].TotalRequests > 0

\* The cumulative weight the walk has reached after the i-th backend of hb.
CumulativeWeight(hb, i) == TotalWeight(SubSeq(hb, 1, i), 1)

\* C35: after a weighted selection over a subset of positive total weight,
\* 0 <= weightedIndex < totalWeight of that subset, whatever cursor the call before
\* left; the walk finds a backend whose cumulative weight exceeds the cursor and
\* returns the first such, so the fallback return of backends[0] is not reached.
C35_CursorWithinTotal ==
    /\ [](pc[1] = "wrrWalk" =>
            LET hb == healthyBackends[1]
            IN  /\ 0 <= weightedIndex /\ weightedIndex < TotalWeight(hb, 1)
                /\ \E i \in 1..Len(hb) : weightedIndex < CumulativeWeight(hb, i))
    /\ [][pc[1] = "wrrWalk" /\ pc'[1] # pc[1] =>
            LET hb == healthyBackends[1]
                i == Pos(hb, backend'[1])
            IN  /\ i # 0
                /\ weightedIndex < CumulativeWeight(hb, i)
                /\ weightedIndex >= CumulativeWeight(hb, i - 1)
                /\ weightedIndex' = weightedIndex
                /\ weightedIndex' < TotalWeight(hb, 1)]_vars

\* C35 witness: three backends of weight 2; the third was returned at cursors 4 and 5
\* and then marked unhealthy, and the next call, over the first two (total weight 4),
\* has taken the cursor from 5 to (5 + 1) mod 4 = 2.
C35_Witness ==
    /\ strategy = WeightedRoundRobin
    /\ pc[1] = "wrrWalk"
    /\ Len(backends) = 3 /\ \A b \in 1..3 : backends[b].Weight = 2
    /\ healthyBackends[1] = <<1, 2>>
    /\ <<backends[1].TotalRequests, backends[2].TotalRequests, backends[3].TotalRequests>> = <<1, 2, 2>>
    /\ weightedIndex = 2

\* The requests that have taken backend url.
SimpleHits(url) == Count(simpleProxy.handled, url)

\* C33: in the simple proxy, requests handled concurrently are distributed in
\* round-robin fashion: the M requests that have taken a backend have taken each of
\* the K backends floor(M/K) or ceil(M/K) times, and backendIndex is within [0, K).
C33_SimpleRoundRobin ==
    LET K == Len(simpleProxy.backends)
        M == Len(simpleProxy.handled)
        distinct == Cardinality(Range(simpleProxy.backends)) = K
    IN  K > 0 =>
            /\ simpleProxy.backendIndex \in 0..(K - 1)
            /\ distinct =>
                    \A url \in Range(simpleProxy.backends) :
                        SimpleHits(url) \in {M \div K, (M + K - 1) \div K}

\* C34: whatever the number of round-robin selections made, the index
\* roundRobinIndex mod len(subset) that roundRobinSelect uses is within
\* [0, len(subset)).
C34_IndexWithinSubset ==
    \A t \in DOMAIN pc :
        (Scanned(t) /\ strategy = RoundRobin /\ Len(healthyBackends[t]) > 0) =>
            GoMod(roundRobinIndex, Len(healthyBackends[t])) \in 0..(Len(healthyBackends[t]) - 1)

\* pingHandler holds the mutex of some backend shared; goroutine g holds one
\* exclusively.
PingHoldsBackend == \E b \in DOMAIN backendMutex : "ping" \in backendMutex[b].r
HoldsBackendLock(g) == \E b \in DOMAIN backendMutex : backendMutex[b].w = g

\* C31: locks are acquired registry lock first, backend lock second: a goroutine that
\* holds a backend lock is never acquiring the registry lock, and the registry lock is
\* never held exclusively while pingHandler holds it shared.  Under fair scheduling
\* every operation that has started completes.
C31_DeadlockFree ==
    /\ [](/\ PingHoldsBackend => PingHoldsRegistry
          /\ ~(PingHoldsRegistry /\ lbMutex # 0)
          /\ \A g \in Writers :
                HoldsBackendLock(g) => conn[g].pc \in {"active", "total", "time", "check", "healthy", "unlock"}
          /\ \A b \in DOMAIN backendMutex : backendMutex[b].w # 0 => backendMutex[b].r = {})
    /\ (pc[1] # "idle") ~> (pc[1] = "idle")
    /\ \A g \in Writers : (conn[g].pc # "idle") ~> (conn[g].pc = "idle")
    /\ (ping.pc # "idle") ~> (ping.pc = "idle")

\* C31 witness: pingHandler, holding the registry lock shared, waits for the lock of
\* a backend that IncrementConnections holds, while a request waits in GetBackend for
\* the registry lock.
C31_Witness ==
    /\ ping.pc = "rlock" /\ ping.i <= Len(backends)
    /\ \E g \in Writers : backendMutex[ping.i].w = g /\ conn[g].op = "IncrementConnections"
    /\ pc[1] = "lock"

====
